---- MODULE Spec2Model ----
(***************************************************************************)
(* A model of server.py of srvchetry/querygenerator: the OData $metadata  *)
(* parser (parse_odata_metadata), build_auth_headers, the handlers         *)
(* fetch_metadata, suggest_personas (retry loop and reply decoding),       *)
(* check_entities, fetch_sample_data with fetch_entity_sample,             *)
(* generate_utterances with its post-processing loop, and                  *)
(* validate_endpoint.  Each component has its own specification; the       *)
(* variables of the other components stay at their idle values.            *)
(* SpecRoutes is one request to any of the routes that require input.      *)
(*                                                                         *)
(* Strings whose characters matter (annotation values, endpoints) are     *)
(* sequences of one-character strings.  Dotted identifiers are sequences  *)
(* of their dot-free segments, so that s.split('.')[-1] is the last       *)
(* element.  Names that are only compared are TLA+ strings, "" standing   *)
(* for an absent or empty attribute (both are falsy in the code).         *)
(***************************************************************************)
EXTENDS Integers, Sequences, FiniteSets, TLC

VARIABLES
    pc,                 \* which handler has run: "start" or "done"
    xml_content,        \* argument of parse_odata_metadata
    expat_skips_bom,    \* whether the XML library itself accepts one leading U+FEFF
    entity_containers,  \* value returned by parse_odata_metadata
    raised,             \* TRUE iff parse_odata_metadata let an exception escape
    info_properties,    \* generate_utterances: properties = entity_info['properties']
    persona,            \* generate_utterances: the request's persona, <<>> when absent
    llm_utterances,     \* the utterance list as decoded from the LLM response
    utterances,         \* the utterance list, updated in place by post-processing
    previous,           \* the utterance list before the latest post-processing pass
    floored,            \* per utterance, local `endpoint` after the $top check of the latest pass
    passes,             \* number of post-processing passes applied so far
    response,           \* fetch_entity_sample: what requests.get returned or raised
    hash_seed,          \* the process's string hash seed (set iteration order)
    records,            \* fetch_entity_sample: local `records`
    entity_samples,     \* fetch_entity_sample: the entity_samples mapping
    batch_pc,           \* fetch_sample_data: "idle", "start", "fetching" or "done"
    service_url,        \* fetch_sample_data: data.get('service_url', ''), before strip()
    sample_size,        \* fetch_sample_data: the request's sample_size, <<>> when absent
    batch_entities,     \* fetch_sample_data: the request's entities, in the order of the JSON object
    queue,              \* fetch_sample_data: entities still to be fetched, in fetch order
    gets,               \* the GET requests issued so far, oldest first
    batch_response,     \* what fetch_sample_data returned
    llm_pc,             \* suggest_personas: "idle", "start", "calling", "reply" or "done"
    persona_entities,   \* suggest_personas: the names of data.get('entities', {})
    api_key,            \* suggest_personas: data.get('api_key'), "" when absent or empty
    attempt,            \* suggest_personas: the loop variable of the retry loop
    llm_calls,          \* the outcomes of the client.messages.create calls so far, oldest first
    sleeps,             \* the arguments of the time.sleep calls so far, oldest first
    reply_text,         \* message.content[0].text of a successful LLM reply
    reply_parses,       \* whether json.loads accepts the text it is handed
    json_loads,         \* the arguments of the json.loads calls so far, oldest first
    llm_response,       \* what suggest_personas returned
    auth_pc,            \* build_auth_headers: "idle", "start" or "done"
    auth_config,        \* argument of build_auth_headers
    auth_headers,       \* value returned by build_auth_headers
    meta_pc,            \* fetch_metadata: "idle", "start", "waiting" or "done"
    metadata_url,       \* fetch_metadata: the request's metadata_url, <<>> when absent
    meta_service_url,   \* fetch_metadata: the request's service_url, <<>> when absent
    meta_gets,          \* the GET requests fetch_metadata issued, oldest first
    meta_response,      \* what fetch_metadata returned
    val_pc,             \* validate_endpoint: "idle", "start", "waiting" or "done"
    val_service_url,    \* validate_endpoint: data.get('service_url', ''), before strip()
    val_endpoint,       \* validate_endpoint: data.get('endpoint', ''), before strip()
    val_gets,           \* the GET requests validate_endpoint issued, oldest first
    val_response,       \* what validate_endpoint returned
    chk_pc,             \* check_entities: "idle", "start", "checking" or "done"
    chk_service_url,    \* check_entities: data.get('service_url', ''), before strip()
    chk_entities,       \* check_entities: the request's entities, in the order of the JSON object
    chk_gets,           \* the GET requests check_entities issued, oldest first
    entity_status,      \* check_entities: the entity_status mapping
    chk_response,       \* what check_entities returned
    gen_pc,             \* generate_utterances: "idle", "start", "calling" or "done"
    gen_entity,         \* generate_utterances: data.get('entity'), "" when absent or empty
    gen_api_key,        \* generate_utterances: data.get('api_key'), "" when absent or empty
    gen_llm_calls,      \* the outcomes of the client.messages.create calls of generate_utterances
    gen_response        \* what generate_utterances returned

parseVars == <<pc, xml_content, expat_skips_bom, entity_containers, raised>>
repairVars == <<info_properties, persona, llm_utterances, utterances, previous, floored, passes>>
sampleVars == <<response, hash_seed, records, entity_samples>>
batchVars == <<batch_pc, service_url, sample_size, batch_entities, queue, gets,
              batch_response>>
llmVars == <<llm_pc, persona_entities, api_key, attempt, llm_calls, sleeps, reply_text,
            reply_parses, json_loads, llm_response>>
authVars == <<auth_pc, auth_config, auth_headers>>
metaVars == <<meta_pc, metadata_url, meta_service_url, meta_gets, meta_response>>
validateVars == <<val_pc, val_service_url, val_endpoint, val_gets, val_response>>
checkVars == <<chk_pc, chk_service_url, chk_entities, chk_gets, entity_status, chk_response>>
genVars == <<gen_pc, gen_entity, gen_api_key, gen_llm_calls, gen_response>>
vars == <<parseVars, repairVars, sampleVars, batchVars, llmVars, authVars, metaVars,
          validateVars, checkVars, genVars>>

(***************************************************************************)
(* Bounds of the model.                                                    *)
(***************************************************************************)
MaxProps == 25      \* most Property children of one generated EntityType
MaxNavs  == 16      \* most NavigationProperty children of one generated EntityType
MaxBom   == 2       \* most leading U+FEFF characters of a generated text
MaxElems == 3       \* most EntityType and EntitySet elements of a generated hybrid document

(***************************************************************************)
(* Program constants.                                                      *)
(***************************************************************************)
PropCap == 20       \* properties[:20]
NavCap  == 15       \* nav_props[:15]

Min(a, b) == IF a < b THEN a ELSE b

(***************************************************************************)
(* Characters and case folding (str.lower on the letters that occur).      *)
(***************************************************************************)
UpperChars == <<"A","B","C","D","E","F","G","H","I","J","K","L","M",
                "N","O","P","Q","R","S","T","U","V","W","X","Y","Z">>
LowerChars == <<"a","b","c","d","e","f","g","h","i","j","k","l","m",
                "n","o","p","q","r","s","t","u","v","w","x","y","z">>

UpperSet == { UpperChars[i] : i \in 1..Len(UpperChars) }
LowerMap ==
    [c \in UpperSet |-> LowerChars[CHOOSE i \in 1..Len(UpperChars) : UpperChars[i] = c]]

LowerChar(c) == IF c \in UpperSet THEN LowerMap[c] ELSE c

Lower(s) == [i \in 1..Len(s) |-> LowerChar(s[i])]

(***************************************************************************)
(* The namespaces dictionary and the order in which both passes try it.    *)
(* A namespace URI is modelled by its prefix; "other" is any other URI.    *)
(***************************************************************************)
NsOrder == <<"edm", "edm2", "edm3">>
Namespaces == {"edm", "edm2", "edm3", "other"}

EmptyMap == [n \in {} |-> {}]
Put(f, k, v) == [x \in (DOMAIN f) \cup {k} |-> IF x = k THEN v ELSE f[x]]

\* Python truthiness of a dotted string: absent (<<>>) and '' (<<"">>) are falsy.
Truthy(s) == s # <<>> /\ s # <<"">>
\* Mutant: the first segment, the namespace qualifier, is kept instead.
LastSegment_first(s) == s[1]

\* s.split('.')[-1]
LastSegment(s) == s[Len(s)]

\* Mutant: the comparison is case-sensitive.
AnnotationFlag_caseSensitive(ann) ==
    (~ann.present) \/ ann.value = <<"t","r","u","e">>

\* An attribute read with a default: prop.get(attr, 'true') then .lower() == 'true'
AnnotationFlag(ann) ==
    LET value == IF ann.present THEN ann.value ELSE <<"t","r","u","e">>
    IN  Lower(value) = <<"t","r","u","e">>

(***************************************************************************)
(* First pass, body of the loop over one EntityType element.               *)
(***************************************************************************)
\* key_elem = entity_type.find('{ns}Key'): the first Key child in ns, if any
RECURSIVE FindKey(_, _, _)
FindKey(children, ns, i) ==
    IF i > Len(children) THEN 0
    ELSE IF children[i].tag = "Key" /\ children[i].ns = ns THEN i
    ELSE FindKey(children, ns, i + 1)

RECURSIVE KeyNames(_, _, _, _)
KeyNames(refs, ns, i, keys) ==
    IF i > Len(refs) THEN keys
    ELSE IF refs[i].tag = "PropertyRef" /\ refs[i].ns = ns /\ refs[i].Name # ""
         THEN KeyNames(refs, ns, i + 1, Append(keys, refs[i].Name))
         ELSE KeyNames(refs, ns, i + 1, keys)

RECURSIVE CollectProperties(_, _, _, _)
CollectProperties(children, ns, i, properties) ==
    IF i > Len(children) THEN properties
    ELSE IF children[i].tag = "Property" /\ children[i].ns = ns /\ children[i].Name # ""
         THEN CollectProperties(children, ns, i + 1,
                Append(properties,
                       [name       |-> children[i].Name,
                        type       |-> LastSegment(children[i].Type),
                        filterable |-> AnnotationFlag(children[i].filterable),
                        sortable   |-> AnnotationFlag(children[i].sortable)]))
         ELSE CollectProperties(children, ns, i + 1, properties)

RECURSIVE CollectNavProps(_, _, _, _)
CollectNavProps(children, ns, i, nav_props) ==
    IF i > Len(children) THEN nav_props
    ELSE IF children[i].tag = "NavigationProperty" /\ children[i].ns = ns
            /\ children[i].Name # ""
         THEN CollectNavProps(children, ns, i + 1,
                Append(nav_props,
                       [name         |-> children[i].Name,
                        relationship |-> children[i].Relationship,
                        to_role      |-> children[i].ToRole]))
         ELSE CollectNavProps(children, ns, i + 1, nav_props)

\* Mutant: the slice is forgotten.
CapProperties_uncapped(properties) == properties

\* properties[:20]
CapProperties(properties) == SubSeq(properties, 1, Min(Len(properties), PropCap))
\* nav_props[:15]
CapNavProps(nav_props) == SubSeq(nav_props, 1, Min(Len(nav_props), NavCap))

EntityTypeEntry(entity_type, ns) ==
    LET k == FindKey(entity_type.children, ns, 1)
    IN  [properties |-> CapProperties(CollectProperties(entity_type.children, ns, 1, <<>>)),
         keys       |-> IF k = 0 THEN <<>>
                        ELSE KeyNames(entity_type.children[k].children, ns, 1, <<>>),
         navigation_properties |->
                        CapNavProps(CollectNavProps(entity_type.children, ns, 1, <<>>))]

\* Mutant: a name that is already defined is not overwritten.
StoreEntityType_keepFirst(entities, entity_name, entry) ==
    IF entity_name \in DOMAIN entities THEN entities
    ELSE Put(entities, entity_name, entry)

\* entities[entity_name] = {...}
StoreEntityType(entities, entity_name, entry) == Put(entities, entity_name, entry)

\* for entity_type in root.findall('.//{ns}EntityType')
RECURSIVE ScanEntityTypes(_, _, _, _)
ScanEntityTypes(elems, ns, i, entities) ==
    IF i > Len(elems) THEN entities
    ELSE IF elems[i].tag = "EntityType" /\ elems[i].ns = ns /\ elems[i].Name # ""
         THEN ScanEntityTypes(elems, ns, i + 1,
                StoreEntityType(entities, elems[i].Name, EntityTypeEntry(elems[i], ns)))
         ELSE ScanEntityTypes(elems, ns, i + 1, entities)

\* for ns_prefix in ['edm', 'edm2', 'edm3']  (first pass)
RECURSIVE FirstPass(_, _, _)
FirstPass(elems, n, entities) ==
    IF n > Len(NsOrder) THEN entities
    ELSE FirstPass(elems, n + 1, ScanEntityTypes(elems, NsOrder[n], 1, entities))

(***************************************************************************)
(* Second pass: EntitySet elements resolved against the first pass.        *)
(***************************************************************************)
ResolveEntitySet(entities, type_name) ==
    [entity_type |-> type_name,
     properties  |-> entities[type_name].properties,
     keys        |-> entities[type_name].keys,
     navigation_properties |-> entities[type_name].navigation_properties]

RECURSIVE ScanEntitySets(_, _, _, _, _)
ScanEntitySets(elems, ns, i, entities, containers) ==
    IF i > Len(elems) THEN containers
    ELSE IF elems[i].tag = "EntitySet" /\ elems[i].ns = ns
            /\ elems[i].Name # "" /\ Truthy(elems[i].EntityType)
            /\ LastSegment(elems[i].EntityType) \in DOMAIN entities
         THEN ScanEntitySets(elems, ns, i + 1, entities,
                Put(containers, elems[i].Name,
                    ResolveEntitySet(entities, LastSegment(elems[i].EntityType))))
         ELSE ScanEntitySets(elems, ns, i + 1, entities, containers)

RECURSIVE SecondPass(_, _, _, _)
SecondPass(elems, n, entities, containers) ==
    IF n > Len(NsOrder) THEN containers
    ELSE SecondPass(elems, n + 1, entities,
                    ScanEntitySets(elems, NsOrder[n], 1, entities, containers))

(***************************************************************************)
(* The text handed to the parser and ET.fromstring.                        *)
(*   kind       "str" for a text, "other" for a value without startswith   *)
(*   boms       number of leading U+FEFF characters                        *)
(*   wellformed whether the rest of the text is well-formed XML            *)
(*   elems      the descendants of the root, in document order             *)
(***************************************************************************)
\* Mutant: the byte-order mark is left in place.
StripBOM_kept(text) == text

\* if xml_content.startswith(U+FEFF): xml_content = xml_content[1:]
StripBOM(text) ==
    IF text.boms > 0 THEN [text EXCEPT !.boms = text.boms - 1] ELSE text

\* ET.fromstring: "ok" or "ParseError"
FromString(text, skips) ==
    IF text.wellformed /\ (text.boms = 0 \/ (text.boms = 1 /\ skips))
    THEN "ok" ELSE "ParseError"

\* The body of the try block: the exception it ends with, and its value.
TryBody(text, skips) ==
    IF text.kind # "str" THEN [exc |-> "AttributeError", value |-> EmptyMap]
    ELSE LET stripped == StripBOM(text)
         IN  IF FromString(stripped, skips) = "ParseError"
             THEN [exc |-> "ParseError", value |-> EmptyMap]
             ELSE [exc |-> "none",
                   value |-> SecondPass(stripped.elems, 1,
                                        FirstPass(stripped.elems, 1, EmptyMap),
                                        EmptyMap)]

\* Mutant: the try block has no handler.
Caught_nothing(exc) == FALSE

\* except ET.ParseError / except Exception: every exception class is caught
Caught(exc) == exc \in {"ParseError", "AttributeError"}

parse_odata_metadata(text, skips) ==
    LET o == TryBody(text, skips)
    IN  IF o.exc = "none" THEN [raised |-> FALSE, value |-> o.value]
        ELSE IF Caught(o.exc) THEN [raised |-> FALSE, value |-> EmptyMap]
        ELSE [raised |-> TRUE, value |-> EmptyMap]

(***************************************************************************)
(* Text operations of the utterance post-processing (str and re).          *)
(***************************************************************************)
Contains(s, pat) ==
    \E i \in 1..(Len(s) - Len(pat) + 1) : SubSeq(s, i, i + Len(pat) - 1) = pat

\* Does pat, compared ignoring case, stand in s at position i ?
MatchesAt(s, i, pat) ==
    /\ i >= 1 /\ i + Len(pat) - 1 <= Len(s)
    /\ Lower(SubSeq(s, i, i + Len(pat) - 1)) = pat

\* \w of the re module, on the characters that occur
WordChars ==
    {"0","1","2","3","4","5","6","7","8","9","_","A","B","C","D","E",
     "F","G","H","I","J","K","L","M","N","O","P","Q","R","S","T","U",
     "V","W","X","Y","Z","a","b","c","d","e","f","g","h","i","j","k",
     "l","m","n","o","p","q","r","s","t","u","v","w","x","y","z"}
WordChar(c) == c \in WordChars

\* \b between s[p] and s[p+1], p in 0..Len(s)
WordBoundary(s, p) ==
    (p >= 1 /\ WordChar(s[p])) # (p < Len(s) /\ WordChar(s[p + 1]))

\* re.search(r'\b' + re.escape(prop) + r'\b', filter_clause, re.IGNORECASE)
WordSearch(prop, filter_clause) ==
    \E i \in 0..(Len(filter_clause) - Len(prop)) :
        /\ Lower(SubSeq(filter_clause, i + 1, i + Len(prop))) = Lower(prop)
        /\ WordBoundary(filter_clause, i)
        /\ WordBoundary(filter_clause, i + Len(prop))

\* End of the longest run of characters other than '&' that starts at i
\* (i - 1 when there is none).
RunEnd(s, i) ==
    LET amps == { j \in i..Len(s) : s[j] = "&" }
    IN  IF amps = {} THEN Len(s)
        ELSE (CHOOSE j \in amps : \A k \in amps : j <= k) - 1

FilterEq == <<"$","f","i","l","t","e","r","=">>

\* re.search(r'\$filter=([^&]+)', endpoint, re.IGNORECASE): start of the
\* leftmost match, 0 when there is none.
FilterMatch(endpoint) ==
    LET starts == { i \in 1..Len(endpoint) :
                      /\ MatchesAt(endpoint, i, FilterEq)
                      /\ RunEnd(endpoint, i + Len(FilterEq)) >= i + Len(FilterEq) }
    IN  IF starts = {} THEN 0
        ELSE CHOOSE i \in starts : \A j \in starts : i <= j

\* filter_match.group(1)
FilterClause(endpoint, start) ==
    SubSeq(endpoint, start + Len(FilterEq), RunEnd(endpoint, start + Len(FilterEq)))

\* re.sub(r'[&?]\$filter=[^&]*', '', endpoint, flags=re.IGNORECASE): the
\* leftmost match is cut out, then the rest of the text is scanned.
RECURSIVE RemoveFilters(_)
RemoveFilters(s) ==
    LET starts == { i \in 1..Len(s) : s[i] \in {"&", "?"} /\ MatchesAt(s, i + 1, FilterEq) }
    IN  IF starts = {} THEN s
        ELSE LET i == CHOOSE j \in starts : \A k \in starts : j <= k
                 e == RunEnd(s, i + 1 + Len(FilterEq))
             IN  SubSeq(s, 1, i - 1) \o RemoveFilters(SubSeq(s, e + 1, Len(s)))

\* re.sub(pat, rep, s) for a literal pattern: the leftmost occurrence is
\* replaced, then the rest of the text is scanned.
RECURSIVE ReplaceAll(_, _, _)
ReplaceAll(s, pat, rep) ==
    LET starts == { i \in 1..(Len(s) - Len(pat) + 1) : SubSeq(s, i, i + Len(pat) - 1) = pat }
    IN  IF starts = {} THEN s
        ELSE LET i == CHOOSE j \in starts : \A k \in starts : j <= k
             IN  SubSeq(s, 1, i - 1) \o rep
                 \o ReplaceAll(SubSeq(s, i + Len(pat), Len(s)), pat, rep)

\* ', '.join(names)
RECURSIVE JoinComma(_)
JoinComma(names) ==
    IF names = <<>> THEN <<>>
    ELSE IF Len(names) = 1 THEN names[1]
    ELSE names[1] \o <<",", " ">> \o JoinComma(Tail(names))

(***************************************************************************)
(* Post-processing of generate_utterances.  An optional key of an          *)
(* utterance is <<>> when absent and <<value>> when present.               *)
(***************************************************************************)
DollarTop == <<"$","t","o","p">>
DollarFilter == <<"$","f","i","l","t","e","r">>
Top50 == <<"$","t","o","p","=","5","0">>

\* non_filterable: names of the dict properties whose 'filterable' is falsy
RECURSIVE NonFilterable(_, _, _)
NonFilterable(props, i, non_filterable) ==
    IF i > Len(props) THEN non_filterable
    ELSE IF props[i].kind = "dict" /\ ~props[i].filterable
         THEN NonFilterable(props, i + 1, Append(non_filterable, props[i].name))
         ELSE NonFilterable(props, i + 1, non_filterable)

\* Separator of the appended parameter
TopSeparator(endpoint) == IF Contains(endpoint, <<"?">>) THEN <<"&">> ELSE <<"?">>

\* Mutant: $top=50 is appended to every non-empty endpoint.
NeedsTop_always(endpoint) == endpoint # <<>>

\* Check if $top is missing
NeedsTop(endpoint) == endpoint # <<>> /\ ~Contains(Lower(endpoint), DollarTop)

PaginationFloor(endpoint) ==
    IF NeedsTop(endpoint) THEN endpoint \o TopSeparator(endpoint) \o Top50 ELSE endpoint

\* used_non_filterable for the endpoint after the $top check; <<>> when the
\* filter check does not apply
UsedNonFilterable(endpoint, non_filterable) ==
    IF Contains(Lower(endpoint), DollarFilter) /\ non_filterable # <<>>
       /\ FilterMatch(endpoint) # 0
    THEN LET filter_clause == FilterClause(endpoint, FilterMatch(endpoint))
         IN  SelectSeq(non_filterable, LAMBDA prop : WordSearch(prop, filter_clause))
    ELSE <<>>

\* Remove $filter and its value, then clean up double & or ? at start
StripFilter(endpoint) ==
    LET removed == RemoveFilters(endpoint)
        cleaned == ReplaceAll(removed, <<"?","&">>, <<"?">>)
    IN  ReplaceAll(cleaned, <<"&","&">>, <<"&">>)

WarningText(used) ==
    [text |-> "Original filter removed due to non-filterable properties: ",
     names |-> JoinComma(used)]

\* The body of `for utterance in utterances`, with the local `endpoint`
\* after the $top check.
PostProcessUtterance(utterance, non_filterable) ==
    LET original_endpoint ==
            IF utterance.suggested_endpoint = <<>> THEN <<>>
            ELSE utterance.suggested_endpoint[1]
        afterTop == PaginationFloor(original_endpoint)
        used == UsedNonFilterable(afterTop, non_filterable)
        endpoint == IF used # <<>> THEN StripFilter(afterTop) ELSE afterTop
        modified == NeedsTop(original_endpoint) \/ used # <<>>
        u1 == IF used # <<>>
              THEN [utterance EXCEPT !.removed_non_filterable = <<used>>,
                                     !.warning = <<WarningText(used)>>]
              ELSE utterance
        u2 == IF modified
              THEN [u1 EXCEPT !.suggested_endpoint = <<endpoint>>]
              ELSE u1
        u3 == IF modified /\ original_endpoint # endpoint
              THEN [u2 EXCEPT !.original_endpoint = <<original_endpoint>>,
                              !.auto_modified = <<TRUE>>]
              ELSE u2
    IN  [utterance |-> u3, floored |-> afterTop]

\* Add persona info to each utterance
StampPersona(utterance, p) ==
    IF p # <<>>
    THEN [utterance EXCEPT !.persona = <<p[1].title>>, !.persona_id = <<p[1].id>>]
    ELSE utterance

(***************************************************************************)
(* fetch_entity_sample: JSON values, record extraction, value inventory.   *)
(* A JSON value is a record with its type; the keys of a JSON object and   *)
(* the string values are sequences of characters.                          *)
(***************************************************************************)
SampleCap == 5      \* list(values)[:5]

JDict(items) == [type |-> "dict", items |-> items]
JList(elems) == [type |-> "list", elems |-> elems]
JStr(chars)  == [type |-> "str", v |-> chars]
JInt(n)      == [type |-> "int", v |-> n]
JBool(b)     == [type |-> "bool", v |-> b]
JNull        == [type |-> "null"]

KeyD == <<"d">>
KeyResults == <<"r","e","s","u","l","t","s">>
KeyValue == <<"v","a","l","u","e">>
KeyCount == <<"_","_","c","o","u","n","t">>

\* key in json_data, for a dict
HasKey(j, key) == key \in DOMAIN j.items

\* 'results' in json_data['d']: "yes", "no", or "TypeError" when d has no
\* membership test
InResults(d) ==
    IF d.type = "dict" THEN (IF KeyResults \in DOMAIN d.items THEN "yes" ELSE "no")
    ELSE IF d.type = "list"
         THEN (IF \E i \in 1..Len(d.elems) : d.elems[i] = JStr(KeyResults)
               THEN "yes" ELSE "no")
    ELSE IF d.type = "str" THEN (IF Contains(d.v, KeyResults) THEN "yes" ELSE "no")
    ELSE "TypeError"

\* Mutant: a bare list under 'd' is not recognised and is wrapped like an object.
ExtractRecords_noList(json_data) ==
    IF json_data.type # "dict" THEN [exc |-> "none", records |-> JList(<<>>)]
    ELSE IF HasKey(json_data, KeyD) /\ InResults(json_data.items[KeyD]) = "TypeError"
         THEN [exc |-> "TypeError", records |-> JList(<<>>)]
    ELSE IF HasKey(json_data, KeyD) /\ InResults(json_data.items[KeyD]) = "yes"
         THEN IF json_data.items[KeyD].type = "dict"
              THEN [exc |-> "none", records |-> json_data.items[KeyD].items[KeyResults]]
              ELSE [exc |-> "TypeError", records |-> JList(<<>>)]
    ELSE IF HasKey(json_data, KeyValue)
         THEN [exc |-> "none", records |-> json_data.items[KeyValue]]
    ELSE IF HasKey(json_data, KeyD)
         THEN [exc |-> "none", records |-> JList(<< json_data.items[KeyD] >>)]
    ELSE [exc |-> "none", records |-> JList(<<>>)]

\* Extract records: the if / elif chain over the shapes of the body
ExtractRecords(json_data) ==
    IF json_data.type # "dict" THEN [exc |-> "none", records |-> JList(<<>>)]
    ELSE IF HasKey(json_data, KeyD) /\ InResults(json_data.items[KeyD]) = "TypeError"
         THEN [exc |-> "TypeError", records |-> JList(<<>>)]
    ELSE IF HasKey(json_data, KeyD) /\ InResults(json_data.items[KeyD]) = "yes"
         THEN IF json_data.items[KeyD].type = "dict"
              THEN [exc |-> "none", records |-> json_data.items[KeyD].items[KeyResults]]
              ELSE [exc |-> "TypeError", records |-> JList(<<>>)]
    ELSE IF HasKey(json_data, KeyValue)
         THEN [exc |-> "none", records |-> json_data.items[KeyValue]]
    ELSE IF HasKey(json_data, KeyD) /\ json_data.items[KeyD].type = "list"
         THEN [exc |-> "none", records |-> json_data.items[KeyD]]
    ELSE IF HasKey(json_data, KeyD) /\ json_data.items[KeyD].type # "list"
         THEN [exc |-> "none", records |-> JList(<< json_data.items[KeyD] >>)]
    ELSE [exc |-> "none", records |-> JList(<<>>)]

\* `if records:` for the values that are generated
RecordsTruthy(recs) ==
    IF recs.type = "list" THEN recs.elems # <<>>
    ELSE IF recs.type = "dict" THEN DOMAIN recs.items # {}
    ELSE IF recs.type = "null" THEN FALSE
    ELSE TRUE

DigitChars == <<"0","1","2","3","4","5","6","7","8","9">>

\* str(value) of a scalar (integers of one digit are generated)
StrOf(value) ==
    IF value.type = "str" THEN value.v
    ELSE IF value.type = "int" THEN << DigitChars[value.v + 1] >>
    ELSE IF value.type = "bool"
         THEN (IF value.v THEN <<"T","r","u","e">> ELSE <<"F","a","l","s","e">>)
    ELSE <<"N","o","n","e">>

BooleanNote == <<" ","(","b","o","o","l","e","a","n",")">>

\* The string stored for a value that is not None
StoredValue(value) ==
    IF value.type = "bool"
    THEN (IF value.v THEN <<"t","r","u","e">> ELSE <<"f","a","l","s","e">>)
    ELSE IF Lower(StrOf(value)) \in { <<"t","r","u","e">>, <<"f","a","l","s","e">> }
         THEN StrOf(value) \o BooleanNote
         ELSE StrOf(value)

\* key.startswith('__')
IsMetadataKey(key) == Len(key) >= 2 /\ key[1] = "_" /\ key[2] = "_"

\* Skip metadata and complex objects
Skipped(key, value) == IsMetadataKey(key) \/ value.type \in {"dict", "list"}

\* One record's contribution to property_values
AddRecord(property_values, record) ==
    LET keys == { key \in DOMAIN record.items : ~Skipped(key, record.items[key]) }
    IN  [key \in (DOMAIN property_values) \cup keys |->
            (IF key \in DOMAIN property_values THEN property_values[key] ELSE {})
            \cup (IF key \in keys /\ record.items[key].type # "null"
                  THEN { StoredValue(record.items[key]) } ELSE {})]

\* for record in records
RECURSIVE PropertyValues(_, _, _)
PropertyValues(recs, i, property_values) ==
    IF i > Len(recs) THEN property_values
    ELSE PropertyValues(recs, i + 1, AddRecord(property_values, recs[i]))

\* Iteration order of a set of strings: decided by the strings' hashes, which
\* depend on the hash seed of the process.  Modelled by two orders, one per
\* seed: the alphabetical order and its reverse.
Alphabet == UpperChars \o LowerChars \o DigitChars \o <<" ", "(", ")", "_", "-", "'">>
CharRank(c) ==
    IF \E i \in 1..Len(Alphabet) : Alphabet[i] = c
    THEN CHOOSE i \in 1..Len(Alphabet) : Alphabet[i] = c
    ELSE 0

RECURSIVE StrLess(_, _)
StrLess(a, b) ==
    IF b = <<>> THEN FALSE
    ELSE IF a = <<>> THEN TRUE
    ELSE IF Head(a) # Head(b) THEN CharRank(Head(a)) < CharRank(Head(b))
    ELSE StrLess(Tail(a), Tail(b))

\* str a comes before str b in the iteration
IterBefore(a, b, seed) == IF seed = 0 THEN StrLess(a, b) ELSE StrLess(b, a)

\* list(values)
ListOf(values, seed) ==
    [k \in 1..Cardinality(values) |->
        CHOOSE v \in values :
            Cardinality({ w \in values : w # v /\ IterBefore(w, v, seed) }) = k - 1]

\* Mutant: every value is kept.
CapValues_all(values, seed) == ListOf(values, seed)

\* list(values)[:5]
CapValues(values, seed) ==
    SubSeq(ListOf(values, seed), 1, Min(Cardinality(values), SampleCap))

\* The 200 branch: the entry stored for the entity, and the local `records`
SampleOf(json_data, seed) ==
    LET x == ExtractRecords(json_data)
    IN  IF x.exc # "none"
        THEN [records |-> x.records, entry |-> [error |-> x.exc]]
        ELSE IF ~RecordsTruthy(x.records)
        THEN [records |-> x.records,
              entry |-> [record_count |-> 0, sample_values |-> EmptyMap]]
        ELSE IF x.records.type # "list"
                \/ \E i \in 1..Len(x.records.elems) : x.records.elems[i].type # "dict"
        THEN [records |-> x.records, entry |-> [error |-> "AttributeError"]]
        ELSE LET property_values == PropertyValues(x.records.elems, 1, EmptyMap)
             IN  [records |-> x.records,
                  entry |-> [record_count |-> Len(x.records.elems),
                             sample_values |->
                                [key \in DOMAIN property_values |->
                                    CapValues(property_values[key], seed)],
                             sample_record |-> x.records.elems[1]]]

\* fetch_entity_sample for one response
FetchEntry(resp, seed) ==
    IF resp.kind = "timeout" THEN [records |-> JList(<<>>), entry |-> [error |-> "Request timeout"]]
    ELSE IF resp.kind = "connection"
         THEN [records |-> JList(<<>>), entry |-> [error |-> "Connection failed"]]
    ELSE IF resp.status = 200
         THEN IF resp.kind = "badjson"
              THEN [records |-> JList(<<>>), entry |-> [error |-> "Invalid JSON response"]]
              ELSE SampleOf(resp.body, seed)
    ELSE IF resp.status = 401
         THEN [records |-> JList(<<>>),
               entry |-> [error |-> "Authentication failed - check API key"]]
    ELSE IF resp.status = 403
         THEN [records |-> JList(<<>>), entry |-> [error |-> "Access forbidden"]]
    ELSE IF resp.status = 404
         THEN [records |-> JList(<<>>), entry |-> [error |-> "Entity not found"]]
    ELSE [records |-> JList(<<>>), entry |-> [error |-> "HTTP " \o ToString(resp.status)]]

(***************************************************************************)
(* fetch_sample_data: the order in which a batch fetches its entities.     *)
(***************************************************************************)
Whitespace == {" ", "\t", "\n", "\r"}

\* str.strip()
RECURSIVE Strip(_)
Strip(s) ==
    IF s = <<>> THEN s
    ELSE IF Head(s) \in Whitespace THEN Strip(Tail(s))
    ELSE IF s[Len(s)] \in Whitespace THEN Strip(SubSeq(s, 1, Len(s) - 1))
    ELSE s

\* Step 1: the names collected from navigation_properties
RECURSIVE NavNames(_, _, _)
NavNames(nav_props, i, expandable) ==
    IF i > Len(nav_props) THEN expandable
    ELSE IF nav_props[i].kind = "dict"
         THEN NavNames(nav_props, i + 1,
                       IF nav_props[i].name # "" THEN Append(expandable, nav_props[i].name)
                       ELSE expandable)
         ELSE NavNames(nav_props, i + 1, Append(expandable, nav_props[i].name))

\* Step 1: entity_info['expandable_nav_props'] after the enrichment
Expandable(entity_info) ==
    IF entity_info.expandable_nav_props = <<>> \/ entity_info.expandable_nav_props[1] = <<>>
    THEN NavNames(entity_info.navigation_properties, 1, <<>>)
    ELSE entity_info.expandable_nav_props[1]

\* Step 2: entities_with_nav, as <<entity_name, len(nav_props)>> pairs
EntitiesWithNav(ents) ==
    LET with == SelectSeq(ents, LAMBDA e : Expandable(e.info) # <<>>)
    IN  [k \in 1..Len(with) |-> <<with[k].name, Len(Expandable(with[k].info))>>]

\* Step 2: entities_without_nav
EntitiesWithoutNav(ents) ==
    LET without == SelectSeq(ents, LAMBDA e : Expandable(e.info) = <<>>)
    IN  [k \in 1..Len(without) |-> without[k].name]

\* Mutant: least connected first.
SortByCount_ascending(pairs) ==
    LET before(i, j) == pairs[i][2] < pairs[j][2] \/ (pairs[i][2] = pairs[j][2] /\ i < j)
    IN  [k \in 1..Len(pairs) |->
            pairs[CHOOSE i \in 1..Len(pairs) :
                     Cardinality({ j \in 1..Len(pairs) : before(j, i) }) = k - 1]]

\* entities_with_nav.sort(key=lambda x: x[1], reverse=True): stable, most
\* connected first
SortByCount(pairs) ==
    LET before(i, j) == pairs[i][2] > pairs[j][2] \/ (pairs[i][2] = pairs[j][2] /\ i < j)
    IN  [k \in 1..Len(pairs) |->
            pairs[CHOOSE i \in 1..Len(pairs) :
                     Cardinality({ j \in 1..Len(pairs) : before(j, i) }) = k - 1]]

\* Steps 3 and 4: the entity names in the order of their fetch_entity_sample calls
FetchOrder(ents) ==
    LET sorted == SortByCount(EntitiesWithNav(ents))
    IN  [k \in 1..Len(sorted) |-> sorted[k][1]] \o EntitiesWithoutNav(ents)

InfoOf(ents, entity_name) ==
    ents[CHOOSE k \in 1..Len(ents) : ents[k].name = entity_name].info

\* data.get('sample_size', 5)
DefaultSampleSize == 5

SampleSize(size) == IF size = <<>> THEN DefaultSampleSize ELSE size[1]

\* str.rstrip('/')
RECURSIVE RStripSlash(_)
RStripSlash(s) ==
    IF s # <<>> /\ s[Len(s)] = "/" THEN RStripSlash(SubSeq(s, 1, Len(s) - 1)) ELSE s

\* Mutant: every request asks for an expansion, of the first navigation
\* property or of nothing.
ExpandParam_always(nav_props) ==
    <<"&$expand=", IF nav_props # <<>> THEN nav_props[1] ELSE "">>

\* expand_param: the pieces of f'&$expand={nav_props[0]}', or of ''
ExpandParam(nav_props) ==
    IF nav_props # <<>> THEN <<"&$expand=", nav_props[1]>> ELSE <<>>

\* The f-string of the URL, as the sequence of its pieces: the characters of
\* the service root, then the literal parts and the formatted values
SampleUrl(url, entity_name, size, nav_props) ==
    RStripSlash(url)
        \o <<"/", entity_name, "?$top=", ToString(size), "&$inlinecount=allpages",
             "&$format=json">>
        \o ExpandParam(nav_props)

\* The request issued by fetch_entity_sample: the entity set, the navigation
\* property named in $expand (<<>> when there is none) and the URL
RequestFor(url, size, ents, entity_name) ==
    LET nav_props == Expandable(InfoOf(ents, entity_name))
    IN  [entity |-> entity_name,
         expand |-> IF nav_props # <<>> THEN << nav_props[1] >> ELSE <<>>,
         url |-> SampleUrl(url, entity_name, size, nav_props)]

\* Step 5: the summary of the response
Summary(ents, samples) ==
    [total |-> Len(ents),
     processed |-> Cardinality(DOMAIN samples),
     successful |-> Cardinality({ n \in DOMAIN samples :
                                    ~("error" \in DOMAIN samples[n] /\ samples[n].error # "") }),
     failed |-> Cardinality({ n \in DOMAIN samples :
                                "error" \in DOMAIN samples[n] /\ samples[n].error # "" }),
     with_nav_props |-> Len(EntitiesWithNav(ents)),
     without_nav_props |-> Len(EntitiesWithoutNav(ents))]

(***************************************************************************)
(* suggest_personas: the retry loop around the LLM call.                   *)
(***************************************************************************)
max_retries == 3
retry_delay == 2

RetryKeywords == { <<"o","v","e","r","l","o","a","d">>, <<"r","a","t","e">>, <<"5","2","9">>, <<"5","0","3">>, <<"5","0","2">> }

\* any(keyword in str(e).lower() for keyword in [...])
MentionsOverload(text) == \E keyword \in RetryKeywords : Contains(Lower(text), keyword)

RECURSIVE Pow2(_)
Pow2(n) == IF n = 0 THEN 1 ELSE 2 * Pow2(n - 1)

\* Mutant: the wait does not grow.
WaitTime_constant(n) == retry_delay

\* wait_time = retry_delay * (2 ** attempt)
WaitTime(n) == retry_delay * Pow2(n)

\* What the except clause of one attempt does with the exception e raised in
\* attempt n: "retry" (sleep and continue), "give up" (raise the overload
\* Exception) or "raise" (the exception propagates)
AfterError(e, n) ==
    IF e.class # "APIError" THEN "raise"
    ELSE IF MentionsOverload(e.text)
         THEN (IF n < max_retries - 1 THEN "retry" ELSE "give up")
         ELSE "raise"

(***************************************************************************)
(* Decoding the text of an LLM reply (suggest_personas and, with the same  *)
(* statements, generate_utterances).                                       *)
(***************************************************************************)
\* "~" stands for the grave accent U+0060, the character of a markdown fence
Fence == <<"~","~","~">>

JsonFence == <<"~","~","~","j","s","o","n">>

\* str.find(sep) + 1: where sep first stands in s, 0 when it does not
Find(s, sep) ==
    LET hits == { i \in 1..(Len(s) - Len(sep) + 1) : SubSeq(s, i, i + Len(sep) - 1) = sep }
    IN  IF hits = {} THEN 0 ELSE CHOOSE i \in hits : \A j \in hits : i <= j

\* s.split(sep)[0]
SplitFirst(s, sep) ==
    LET i == Find(s, sep)
    IN  IF i = 0 THEN s ELSE SubSeq(s, 1, i - 1)

\* s.split(sep)[1], for an s that contains sep
SplitSecond(s, sep) ==
    LET i == Find(s, sep)
    IN  SplitFirst(SubSeq(s, i + Len(sep), Len(s)), sep)

\* Mutant: the content of the block is handed over untrimmed.
ExtractJson_untrimmed(text) ==
    IF Contains(text, JsonFence) THEN SplitFirst(SplitSecond(text, JsonFence), Fence)
    ELSE IF Contains(text, Fence) THEN SplitFirst(SplitSecond(text, Fence), Fence)
    ELSE text

\* The if/elif that extracts JSON from markdown
ExtractJson(text) ==
    IF Contains(text, JsonFence) THEN Strip(SplitFirst(SplitSecond(text, JsonFence), Fence))
    ELSE IF Contains(text, Fence) THEN Strip(SplitFirst(SplitSecond(text, Fence), Fence))
    ELSE text

(***************************************************************************)
(* build_auth_headers.                                                     *)
(***************************************************************************)
\* The headers every result starts from
DefaultHeaders ==
    [h \in {"User-Agent", "Accept", "DataServiceVersion", "MaxDataServiceVersion"} |->
        CASE h = "User-Agent" -> "Mozilla/5.0"
          [] h = "Accept" -> "application/json"
          [] h = "DataServiceVersion" -> "2.0"
          [] h = "MaxDataServiceVersion" -> "3.0"]

\* base64.b64encode(credentials.encode()).decode(): an injective encoding,
\* kept symbolic
B64(credentials) == "b64(" \o credentials \o ")"

\* Mutant: a user name alone is enough for the Basic header.
BasicComplete_userOnly(username, password) == username # ""

\* if username and password
BasicComplete(username, password) == username # "" /\ password # ""

\* auth_config.get('type'), None standing for an absent key
TypeOf(config) == IF config.type = <<>> THEN "None" ELSE config.type[1]

build_auth_headers(config) ==
    IF ~config.given \/ TypeOf(config) = "none" THEN DefaultHeaders
    ELSE LET auth_type == TypeOf(config)
         IN  IF auth_type = "apikey"
             THEN (IF config.api_key # ""
                   THEN Put(DefaultHeaders, "APIKey", config.api_key)
                   ELSE DefaultHeaders)
             ELSE IF auth_type = "basic"
             THEN (IF BasicComplete(config.username, config.password)
                   THEN Put(DefaultHeaders, "Authorization",
                            "Basic " \o B64(config.username \o ":" \o config.password))
                   ELSE DefaultHeaders)
             ELSE IF auth_type = "bearer"
             THEN (IF config.token # ""
                   THEN Put(DefaultHeaders, "Authorization", "Bearer " \o config.token)
                   ELSE DefaultHeaders)
             ELSE DefaultHeaders

(***************************************************************************)
(* fetch_metadata.                                                         *)
(***************************************************************************)
\* data.get(key, ''): the value of an optional request field
GetField(field) == IF field = <<>> THEN <<>> ELSE field[1]

MetadataSuffix == <<"/","$","m","e","t","a","d","a","t","a">>

\* Mutant: a request without any URL is sent to the bare suffix.
ResolveUrl_default(m_url, s_url) ==
    IF Strip(GetField(m_url)) # <<>> THEN Strip(GetField(m_url))
    ELSE RStripSlash(Strip(GetField(s_url))) \o MetadataSuffix

\* Determine the metadata URL; <<>> when the request gives none
ResolveUrl(m_url, s_url) ==
    IF Strip(GetField(m_url)) # <<>> THEN Strip(GetField(m_url))
    ELSE IF Strip(GetField(s_url)) # <<>>
         THEN RStripSlash(Strip(GetField(s_url))) \o MetadataSuffix
         ELSE <<>>

\* The headers of the $metadata request
MetadataHeaders(config) ==
    LET headers == Put(build_auth_headers(config), "Accept",
                       "application/xml, text/xml, application/atom+xml")
    IN  [h \in DOMAIN headers \ {"DataServiceVersion", "MaxDataServiceVersion"} |-> headers[h]]

\* What fetch_metadata answers to the outcome of its GET
MetadataAnswer(outcome, skips) ==
    IF outcome.kind = "network" THEN [status |-> 500, error |-> "Network error"]
    ELSE IF outcome.status = 401
         THEN [status |-> 401,
               error |-> "Authentication required. Please provide an API key."]
    ELSE IF outcome.status # 200
         THEN [status |-> 500,
               error |-> "Failed to fetch metadata: HTTP " \o ToString(outcome.status)]
    ELSE IF ~outcome.xml_type /\ ~outcome.xml_decl
         THEN [status |-> 500, error |-> "Response is not XML. The URL might be incorrect."]
    ELSE LET parsed == parse_odata_metadata(outcome.text, skips).value
         IN  IF DOMAIN parsed = {}
             THEN [status |-> 500, error |-> "No entities found in metadata"]
             ELSE [status |-> 200, success |-> TRUE, entities |-> parsed,
                   entity_count |-> Cardinality(DOMAIN parsed)]

(***************************************************************************)
(* validate_endpoint.                                                      *)
(***************************************************************************)
FormatJson == <<"$","f","o","r","m","a","t","=","j","s","o","n">>

\* if '?' in endpoint
FormatSeparator(endpoint) ==
    IF \E i \in 1..Len(endpoint) : endpoint[i] = "?" THEN "&" ELSE "?"

\* full_url, for the stripped service_url and endpoint
FullUrl(url, endpoint) ==
    RStripSlash(url) \o endpoint \o << FormatSeparator(endpoint) >> \o FormatJson

KeyOdataCount == <<"@","o","d","a","t","a",".","c","o","u","n","t">>

\* len(x) of a JSON value: its length, or <<>> when it has none
LenOf(x) ==
    IF x.type = "list" THEN << Len(x.elems) >>
    ELSE IF x.type = "str" THEN << Len(x.v) >>
    ELSE IF x.type = "dict" THEN << Cardinality(DOMAIN x.items) >>
    ELSE <<>>

\* x[0] of a non-empty list or string
FirstOf(x) == IF x.type = "list" THEN x.elems[1] ELSE JStr(<< x.v[1] >>)

\* key in d, for the d that reach the __count test
InD(d, key) ==
    IF d.type = "dict" THEN key \in DOMAIN d.items
    ELSE IF d.type = "list" THEN \E i \in 1..Len(d.elems) : d.elems[i] = JStr(key)
    ELSE Contains(d.v, key)

\* "Extract useful info for display": result_count, preview and total_count
\* (each <<>> when not set), and the exception a statement raises
ResultInfo(json_data) ==
    LET none == [exc |-> "none", result_count |-> <<>>, preview |-> <<>>, total_count |-> <<>>]
        failed == [none EXCEPT !.exc = "TypeError"]
    IN  IF json_data.type # "dict" THEN none
        ELSE IF HasKey(json_data, KeyD)
        THEN LET d == json_data.items[KeyD]
             IN  IF InResults(d) = "TypeError" THEN failed
                 ELSE IF InResults(d) = "yes" /\ d.type # "dict" THEN failed
                 ELSE IF InD(d, KeyCount) /\ d.type # "dict" THEN failed
                 ELSE LET total == IF InD(d, KeyCount) THEN << d.items[KeyCount] >> ELSE <<>>
                      IN  IF InResults(d) = "yes" /\ d.items[KeyResults].type = "list"
                          THEN LET results == d.items[KeyResults]
                               IN  [none EXCEPT !.result_count = << Len(results.elems) >>,
                                                !.preview = IF results.elems # <<>>
                                                            THEN << results.elems[1] >> ELSE <<>>,
                                                !.total_count = total]
                          ELSE IF d.type = "list"
                          THEN [none EXCEPT !.result_count = << Len(d.elems) >>,
                                            !.preview = IF d.elems # <<>>
                                                        THEN << d.elems[1] >> ELSE <<>>,
                                            !.total_count = total]
                          ELSE [none EXCEPT !.result_count = << 1 >>, !.preview = << d >>,
                                            !.total_count = total]
        ELSE IF HasKey(json_data, KeyValue)
        THEN LET value == json_data.items[KeyValue]
             IN  IF LenOf(value) = <<>> THEN failed
                 ELSE IF value.type = "dict" /\ LenOf(value) # << 0 >>
                 THEN [none EXCEPT !.exc = "KeyError"]
                 ELSE [none EXCEPT !.result_count = LenOf(value),
                                   !.preview = IF LenOf(value) # << 0 >>
                                               THEN << FirstOf(value) >> ELSE <<>>,
                                   !.total_count = IF HasKey(json_data, KeyOdataCount)
                                                   THEN << json_data.items[KeyOdataCount] >>
                                                   ELSE <<>>]
        ELSE none

\* What validate_endpoint answers to the outcome of its GET
ValidateAnswer(outcome, full_url) ==
    IF outcome.kind = "timeout"
    THEN [status |-> 500, success |-> FALSE, error |-> "Request timeout"]
    ELSE IF outcome.kind = "connection"
    THEN [status |-> 500, success |-> FALSE, error |-> "str(e)"]
    ELSE IF outcome.status # 200
    THEN [status |-> 200, success |-> FALSE, status_code |-> outcome.status, url |-> full_url,
          message |-> "response.text[:500]"]
    ELSE IF outcome.kind = "badjson"
    THEN [status |-> 200, success |-> TRUE, status_code |-> 200, url |-> full_url,
          message |-> "Endpoint is valid!", sample_data |-> JStr(<<>>)]
    ELSE LET info == ResultInfo(outcome.body)
         IN  IF info.exc # "none"
             THEN [status |-> 500, success |-> FALSE, error |-> "str(e)"]
             ELSE [status |-> 200, success |-> TRUE, status_code |-> 200, url |-> full_url,
                   message |-> "Endpoint is valid!", sample_data |-> outcome.body,
                   result_count |-> info.result_count, preview |-> info.preview,
                   total_count |-> info.total_count]

\* Mutant: the GET is issued before the required fields are looked at.
ValidateRequests_unchecked(url, endpoint, headers) ==
    << [url |-> FullUrl(url, endpoint), headers |-> headers] >>

\* The GETs validate_endpoint issues for the stripped service_url and
\* endpoint: none when one of them is missing
ValidateRequests(url, endpoint, headers) ==
    IF url = <<>> \/ endpoint = <<>> THEN <<>>
    ELSE << [url |-> FullUrl(url, endpoint), headers |-> headers] >>

(***************************************************************************)
(* check_entities.                                                         *)
(***************************************************************************)
\* The URL of the availability check, as the sequence of its pieces
CheckUrl(url, entity_name) ==
    RStripSlash(url) \o <<"/", entity_name, "?$top=1", "&$inlinecount=allpages", "&$format=json">>

\* int(x) of a JSON value: <<n>>, or <<>> when int raises
IntOf(x) ==
    IF x.type = "int" THEN << x.v >>
    ELSE IF x.type = "str" /\ Len(x.v) = 1
            /\ \E n \in 1..Len(DigitChars) : DigitChars[n] = x.v[1]
         THEN << (CHOOSE n \in 1..Len(DigitChars) : DigitChars[n] = x.v[1]) - 1 >>
    ELSE <<>>

\* "Get record count": <<count>>, or <<>> when a statement raises
RecordCount(json_data) ==
    IF json_data.type # "dict" THEN << 0 >>
    ELSE IF HasKey(json_data, KeyD)
    THEN LET d == json_data.items[KeyD]
         IN  IF d.type \notin {"dict", "list", "str"} THEN <<>>
             ELSE IF InD(d, KeyCount)
                  THEN (IF d.type = "dict" THEN IntOf(d.items[KeyCount]) ELSE <<>>)
             ELSE IF InD(d, KeyResults)
                  THEN (IF d.type = "dict" THEN LenOf(d.items[KeyResults]) ELSE <<>>)
             ELSE << 0 >>
    ELSE IF HasKey(json_data, KeyOdataCount)
    THEN (IF json_data.items[KeyOdataCount].type = "int"
          THEN << json_data.items[KeyOdataCount].v >> ELSE <<>>)
    ELSE << 0 >>

\* The entity_status entry one iteration of the loop stores
StatusEntry(outcome, entity_info) ==
    IF outcome.kind # "ok"
    THEN [available |-> FALSE, error |-> "str(e)[:100]", expandable_nav_props |-> <<>>]
    ELSE IF outcome.status # 200
    THEN [available |-> FALSE, error |-> "HTTP " \o ToString(outcome.status),
          expandable_nav_props |-> <<>>]
    ELSE IF RecordCount(outcome.body) = <<>>
    THEN [available |-> FALSE, error |-> "str(e)[:100]", expandable_nav_props |-> <<>>]
    ELSE [available |-> TRUE, record_count |-> RecordCount(outcome.body)[1],
          expandable_nav_props |-> NavNames(entity_info.navigation_properties, 1, <<>>),
          has_data |-> RecordCount(outcome.body)[1] > 0]

\* The summary of the response
CheckSummary(ents, status) ==
    [total |-> Len(ents),
     available |-> Cardinality({ n \in DOMAIN status : status[n].available }),
     expandable |-> Cardinality({ n \in DOMAIN status :
                                    status[n].expandable_nav_props # <<>> })]

(***************************************************************************)
(* Generated metadata documents.                                           *)
(***************************************************************************)
Absent == [present |-> FALSE, value |-> <<>>]
Attr(v) == [present |-> TRUE, value |-> v]

\* Values of the sap:filterable / sap:sortable attributes that are generated.
AnnValues == << Absent,
                Attr(<<"t","r","u","e">>),
                Attr(<<"f","a","l","s","e">>),
                Attr(<<"T","R","U","E">>),
                Attr(<<>>),
                Attr(<<"T","r","u","e">>),
                Attr(<<"1">>),
                Attr(<<"F","a","l","s","e">>),
                Attr(<<"t","r","u","e"," ">>) >>

AnnAt(k) == AnnValues[(k % Len(AnnValues)) + 1]

PropName(i) == "p" \o ToString(i)
NavName(j)  == "n" \o ToString(j)

PropertyElem(ns, name, i, off) ==
    [tag |-> "Property", ns |-> ns, Name |-> name,
     Type |-> IF i % 3 = 0 THEN <<"">>
              ELSE IF i % 3 = 1 THEN <<"Edm", "String">> ELSE <<"Int32">>,
     filterable |-> AnnAt(i + off), sortable |-> AnnAt(2 * i + off + 1)]

NavElem(ns, name, j) ==
    [tag |-> "NavigationProperty", ns |-> ns, Name |-> name,
     Relationship |-> IF j % 2 = 1 THEN "NS.Assoc" ELSE "",
     ToRole |-> IF j % 2 = 1 THEN "To" ELSE ""]

PropertyRef(ns, name) == [tag |-> "PropertyRef", ns |-> ns, Name |-> name]
KeyElem(ns, refs) == [tag |-> "Key", ns |-> ns, children |-> refs]

EntityTypeElem(ns, name, children) ==
    [tag |-> "EntityType", ns |-> ns, Name |-> name, children |-> children]
EntitySetElem(ns, name, type) ==
    [tag |-> "EntitySet", ns |-> ns, Name |-> name, EntityType |-> type]

\* np Property children (the one at position gap, if any, without a Name)
\* interleaved with a Key, then nn NavigationProperty children.
BigBody(ns, np, nn, off, gap) ==
    [i \in 1..np |-> PropertyElem(ns, IF i = gap THEN "" ELSE PropName(i), i, off)]
    \o << KeyElem(ns, << PropertyRef(ns, PropName(1)), PropertyRef(ns, PropName(2)) >>) >>
    \o [j \in 1..nn |-> NavElem(ns, IF j = gap THEN "" ELSE NavName(j), j)]

SmallBody(ns, b) ==
    IF b = 1
    THEN << KeyElem(ns, << PropertyRef(ns, ns) >>),
            PropertyElem(ns, ns, 1, 0) >>
    ELSE << PropertyElem(ns, "q1", 2, 0),
            PropertyElem("other", "qx", 1, 0),
            NavElem(ns, ns, 1),
            PropertyElem(ns, ns, 4, 0),
            KeyElem(ns, << PropertyRef(ns, ""), PropertyRef(ns, "q1"),
                           PropertyRef("other", "qx") >>),
            KeyElem(ns, << PropertyRef(ns, "q2") >>) >>

TypeChoices ==
    { EntityTypeElem("edm",   "A", SmallBody("edm", 1)),
      EntityTypeElem("edm",   "A", SmallBody("edm", 2)),
      EntityTypeElem("edm2",  "A", SmallBody("edm2", 1)),
      EntityTypeElem("edm3",  "A", SmallBody("edm3", 2)),
      EntityTypeElem("other", "A", SmallBody("other", 1)),
      EntityTypeElem("edm",   "B", SmallBody("edm", 1)),
      EntityTypeElem("edm2",  "",  SmallBody("edm2", 1)) }

SetChoices ==
    { EntitySetElem("edm",   "SA", <<"NS", "A">>),
      EntitySetElem("edm3",  "SA", <<"B">>),
      EntitySetElem("edm2",  "SC", <<"NS", "C">>),
      EntitySetElem("other", "SX", <<"A">>),
      EntitySetElem("edm",   "",   <<"A">>),
      EntitySetElem("edm",   "SN", <<>>) }

SeqsUpTo(S, n) == UNION { [1..k -> S] : k \in 0..n }

\* Hybrid documents: EntityType and EntitySet elements in any order.
HybridDocs == SeqsUpTo(TypeChoices \cup SetChoices, MaxElems)

\* One large EntityType and the EntitySet that refers to it.
LargeDocs ==
    { << EntityTypeElem("edm3", "A", BigBody("edm3", np, nn, off, gap)),
         EntitySetElem("edm3", "SA", <<"NS", "Sub", "A">>) >> :
        np \in 0..MaxProps, nn \in {0, 1, NavCap, MaxNavs}, off \in 0..2, gap \in {0, 3} }

Text(boms, wellformed, elems) ==
    [kind |-> "str", boms |-> boms, wellformed |-> wellformed, elems |-> elems]

\* Documents that are also generated behind leading U+FEFF characters.
BomDocs == SeqsUpTo(TypeChoices \cup SetChoices, 2)

Texts ==
    { Text(0, TRUE, d) : d \in HybridDocs \cup LargeDocs }
    \cup { Text(b, TRUE, d) : b \in 1..MaxBom, d \in BomDocs }
    \cup { Text(b, FALSE, <<>>) : b \in 0..MaxBom }
    \cup { [kind |-> "other", boms |-> 0, wellformed |-> FALSE, elems |-> <<>>] }

(***************************************************************************)
(* Generated requests of generate_utterances: the property metadata, the   *)
(* persona and the utterance list decoded from the LLM response.           *)
(***************************************************************************)
MaxParams == 2      \* most query parameters of a generated endpoint
MaxUtterances == 2  \* most utterances of a generated list
MaxPasses == 2      \* most post-processing passes applied to one list

Status == <<"S","t","a","t","u","s">>
Region == <<"R","e","g","i","o","n">>
PathE == <<"/","E">>

ParamTop == <<"$","t","o","p","=","5">>   \* $top=5
ParamTopUpper == <<"$","T","o","p","=","1","0">>   \* $Top=10
ParamFilterBoth == <<"$","f","i","l","t","e","r","=","S","t","a","t","u","s"," ","e","q"," ","'","X","'"," ","a","n","d"," ","R","e","g","i","o","n"," ","e","q"," ","'","Y","'">>   \* $filter=Status eq 'X' and Region eq 'Y'
ParamFilterStatus == <<"$","f","i","l","t","e","r","=","S","t","a","t","u","s"," ","e","q"," ","'","X","'">>   \* $filter=Status eq 'X'
ParamFilterCase == <<"$","F","I","L","T","E","R","=","r","e","g","i","o","n"," ","e","q"," ","'","Y","'">>   \* $FILTER=region eq 'Y'
ParamFilterWord == <<"$","f","i","l","t","e","r","=","R","e","g","i","o","n","_","C","o","d","e"," ","e","q"," ","1">>   \* $filter=Region_Code eq 1
ParamFilterTopText == <<"$","f","i","l","t","e","r","=","R","e","g","i","o","n"," ","e","q"," ","'","$","t","o","p","'">>   \* $filter=Region eq '$top'
ParamExpandFilter == <<"$","e","x","p","a","n","d","=","I","t","e","m","s","(","$","f","i","l","t","e","r","=","R","e","g","i","o","n"," ","e","q"," ","'","Y","'",")">>   \* $expand=Items($filter=Region eq 'Y')
ParamSelect == <<"$","s","e","l","e","c","t","=","R","e","g","i","o","n">>   \* $select=Region

FirstParams == { ParamTop, ParamTopUpper, ParamFilterBoth, ParamFilterStatus,
                 ParamFilterCase, ParamFilterWord, ParamFilterTopText,
                 ParamExpandFilter, ParamSelect }
MoreParams == { ParamTop, ParamFilterBoth, ParamExpandFilter }

RECURSIVE JoinAmp(_)
JoinAmp(ps) ==
    IF Len(ps) = 1 THEN ps[1] ELSE ps[1] \o <<"&">> \o JoinAmp(Tail(ps))

ParamLists ==
    { <<f>> \o more : f \in FirstParams, more \in SeqsUpTo(MoreParams, MaxParams - 1) }

\* The endpoints an LLM response may carry: none, the empty string, a bare
\* path, and a path with query parameters.
Endpoints ==
    { <<>>, << <<>> >>, << PathE >> }
    \cup { << PathE \o <<"?">> \o JoinAmp(ps) >> : ps \in ParamLists }

Utterance(text, endpoint) ==
    [utterance |-> text, complexity |-> "simple", operations_used |-> <<"GET">>,
     suggested_endpoint |-> endpoint,
     original_endpoint |-> <<>>, auto_modified |-> <<>>,
     warning |-> <<>>, removed_non_filterable |-> <<>>,
     persona |-> <<>>, persona_id |-> <<>>]

FewUtterances ==
    { Utterance("list", << PathE \o <<"?">> \o ParamTop >>),
      Utterance("by region", << PathE \o <<"?">> \o ParamFilterBoth >>) }

UtteranceLists ==
    { << Utterance("first", e) >> \o rest :
        e \in Endpoints, rest \in SeqsUpTo(FewUtterances, MaxUtterances - 1) }

Prop(name, filterable) == [kind |-> "dict", name |-> name, filterable |-> filterable]

PropertyLists ==
    { << Prop(Status, TRUE), Prop(Region, FALSE) >>,
      << Prop(Status, TRUE), Prop(Region, TRUE) >>,
      << Prop(Region, FALSE), [kind |-> "str", name |-> Status, filterable |-> FALSE],
         Prop(Status, FALSE) >>,
      <<>> }

Personas == { <<>>, << [title |-> "Analyst", id |-> "p1"] >> }

RepairIdle ==
    /\ info_properties = <<>>
    /\ persona = <<>>
    /\ llm_utterances = <<>>
    /\ utterances = <<>>
    /\ previous = <<>>
    /\ floored = <<>>
    /\ passes = 0

ParseIdle ==
    /\ pc = "idle"
    /\ xml_content = Text(0, FALSE, <<>>)
    /\ expat_skips_bom = FALSE
    /\ entity_containers = EmptyMap
    /\ raised = FALSE

(***************************************************************************)
(* Generated responses of the OData service to one sample request.         *)
(***************************************************************************)
MaxRows == 2        \* most rows of a generated mixed row list
MaxManyRows == 6    \* most rows of a generated row list with distinct Id values

KeyId == <<"I","d">>
KeyName == <<"N","a","m","e">>
KeyActive == <<"A","c","t","i","v","e">>
KeyItems == <<"I","t","e","m","s">>
KeyMetadata == <<"_","_","m","e","t","a","d","a","t","a">>

\* A JSON object from a sequence of <<key, value>> pairs
Obj(pairs) ==
    JDict([key \in { pairs[i][1] : i \in 1..Len(pairs) } |->
              pairs[CHOOSE i \in 1..Len(pairs) : pairs[i][1] = key][2]])

RowChoices ==
    { Obj(<< <<KeyId, JInt(1)>>, <<KeyName, JStr(<<"A">>)>>,
             <<KeyMetadata, Obj(<< <<KeyId, JInt(9)>> >>)>> >>),
      Obj(<< <<KeyId, JInt(2)>>, <<KeyName, JStr(<<"A">>)>>, <<KeyActive, JBool(TRUE)>> >>),
      Obj(<< <<KeyId, JStr(<<"1">>)>>, <<KeyName, JNull>>,
             <<KeyActive, JStr(<<"T","r","u","e">>)>>,
             <<KeyItems, JList(<< JInt(3) >>)>> >>),
      Obj(<< <<KeyId, JInt(3)>>, <<KeyActive, JBool(FALSE)>>, <<KeyItems, JNull>> >>) }

ManyRows(n) == [i \in 1..n |-> Obj(<< <<KeyId, JInt(i)>>, <<KeyName, JStr(<<"B">>)>> >>)]

RowLists ==
    SeqsUpTo(RowChoices, MaxRows) \cup { ManyRows(n) : n \in 3..MaxManyRows }

OtherRows == { <<>>, ManyRows(3) }

EnvResults(rows) ==
    Obj(<< <<KeyD, Obj(<< <<KeyResults, JList(rows)>>, <<KeyCount, JStr(<<"7">>)>> >>)>> >>)
EnvValue(rows) == Obj(<< <<KeyValue, JList(rows)>> >>)
EnvD(rows) == Obj(<< <<KeyD, JList(rows)>> >>)

Bodies ==
    { EnvResults(r) : r \in RowLists }
    \cup { EnvValue(r) : r \in RowLists }
    \cup { EnvD(r) : r \in RowLists }
    \cup { Obj(<< <<KeyD, Obj(<< <<KeyResults, JList(r)>> >>)>>, <<KeyValue, JList(o)>> >>) :
             r \in RowLists, o \in OtherRows }
    \cup { Obj(<< <<KeyValue, JList(r)>>, <<KeyD, JList(o)>> >>) :
             r \in RowLists, o \in OtherRows }
    \cup { Obj(<< <<KeyD, row>> >>) : row \in RowChoices }
    \cup { Obj(<<>>), JList(ManyRows(3)), Obj(<< <<KeyD, JNull>> >>),
           Obj(<< <<KeyD, JStr(KeyResults)>> >>),
           Obj(<< <<KeyD, JList(<< JStr(KeyResults) >>)>> >>),
           Obj(<< <<KeyValue, JList(<< JInt(1) >>)>> >>),
           Obj(<< <<KeyValue, JNull>> >>),
           Obj(<< <<KeyD, Obj(<< <<KeyResults, JNull>> >>)>> >>) }

Responses ==
    { [kind |-> "ok", status |-> 200, body |-> b] : b \in Bodies }
    \cup { [kind |-> "ok", status |-> st, body |-> JNull] : st \in {401, 403, 404, 500} }
    \cup { [kind |-> k, status |-> 200, body |-> JNull] :
             k \in {"timeout", "connection", "badjson"} }

EntityName == "Products"

SampleIdle ==
    /\ response = [kind |-> "none", status |-> 0, body |-> JNull]
    /\ hash_seed = 0
    /\ records = JList(<<>>)
    /\ entity_samples = EmptyMap

(***************************************************************************)
(* Generated sample-data batches.                                          *)
(***************************************************************************)
MaxNavCount == 2    \* most navigation properties of a generated entity

EntityNames == <<"Customers", "Orders", "Products">>

NavDict(n) == [kind |-> "dict", name |-> n]
NavStr(n) == [kind |-> "str", name |-> n]

\* n navigation properties, as the metadata parser reports them
NavList(n) == [i \in 1..n |-> NavDict("Nav" \o ToString(i))]

EntityInfos ==
    { [navigation_properties |-> NavList(n), expandable_nav_props |-> <<>>] :
        n \in 0..MaxNavCount }
    \cup { [navigation_properties |-> << NavStr("Items") >>, expandable_nav_props |-> << <<>> >>],
           [navigation_properties |-> NavList(1),
            expandable_nav_props |-> << << "Nav1" >> >>] }

\* The first n entity names, each with one of the generated infos
EntityLists ==
    UNION { { [k \in 1..n |-> [name |-> EntityNames[k], info |-> f[k]]] :
                f \in [1..n -> EntityInfos] } : n \in 0..Len(EntityNames) }

ServiceUrls == { <<>>, <<" ">>, <<" ","h","t","t","p","s",":","/","/","s","v","c","/"," ">> }

BatchResponses ==
    { [kind |-> "ok", status |-> 200, body |-> b] :
        b \in { EnvValue(ManyRows(3)), Obj(<< <<KeyD, JNull>> >>) } }
    \cup { [kind |-> "ok", status |-> st, body |-> JNull] : st \in {401, 403, 404, 500} }
    \cup { [kind |-> k, status |-> 200, body |-> JNull] :
             k \in {"timeout", "connection", "badjson"} }

\* The service_url and sample_size of the generated requests
SampleRequests ==
    { [service_url |-> u, sample_size |-> <<>>] : u \in ServiceUrls }
    \cup { [service_url |-> <<"h","t","t","p","s",":","/","/","s","v","c">>, sample_size |-> <<2>>] }

NoResponse == [status |-> 0]

BatchIdle ==
    /\ batch_pc = "idle"
    /\ service_url = <<>>
    /\ sample_size = <<>>
    /\ batch_entities = <<>>
    /\ queue = <<>>
    /\ gets = <<>>
    /\ batch_response = NoResponse

(***************************************************************************)
(* Generated suggest_personas requests and LLM outcomes.                   *)
(***************************************************************************)
Success == [class |-> "none", status |-> 200, text |-> <<>>]

ApiError(status, text) == [class |-> "APIError", status |-> status, text |-> text]

\* The exceptions client.messages.create raises, with their HTTP status (0
\* when there was no response) and str(e)
LlmErrors ==
    { ApiError(529, <<"5","2","9"," ","O","v","e","r","l","o","a","d","e","d">>),
      ApiError(429, <<"4","2","9"," ","r","a","t","e","_","l","i","m","i","t","_","e","r","r","o","r">>),
      ApiError(503, <<"5","0","3"," ","S","e","r","v","i","c","e"," ","U","n","a","v","a","i","l","a","b","l","e">>),
      ApiError(502, <<"5","0","2"," ","B","a","d"," ","G","a","t","e","w","a","y">>),
      ApiError(401, <<"4","0","1"," ","i","n","v","a","l","i","d"," ","x","-","a","p","i","-","k","e","y">>),
      ApiError(400, <<"4","0","0"," ","p","r","o","m","p","t"," ","i","s"," ","t","o","o"," ","l","o","n","g",":"," ","2","0","5","0","2","9"," ","t","o","k","e","n","s">>),
      ApiError(500, <<"5","0","0"," ","I","n","t","e","r","n","a","l"," ","s","e","r","v","e","r"," ","e","r","r","o","r">>),
      ApiError(0, <<"C","o","n","n","e","c","t","i","o","n"," ","e","r","r","o","r",".">>),
      [class |-> "TypeError", status |-> 0, text |-> <<"u","n","e","x","p","e","c","t","e","d"," ","k","e","y","w","o","r","d">>] }

LlmOutcomes == {Success} \cup LlmErrors

\* Texts of successful replies: bare JSON, one block, prose around a block,
\* two blocks, a plain block before a json block, an unclosed block, and a
\* closing fence followed by the word json
ReplyTexts ==
    { <<"{","}">>,
      <<" ","{","}"," ","\n">>,
      <<"~","~","~","j","s","o","n","\n","{","}","\n","~","~","~">>,
      <<"~","~","~","\n","{","}","\n","~","~","~">>,
      <<"H","e","r","e",":","\n","~","~","~","j","s","o","n","\n","{","}","\n","~","~","~","\n","D","o","n","e",".">>,
      <<"~","~","~","j","s","o","n","\n","{","}","\n","~","~","~"," ","o","r"," ","~","~","~","j","s","o","n","\n","[","]","\n","~","~","~">>,
      <<"~","~","~","\n","G","E","T"," ","/","E","\n","~","~","~","\n","~","~","~","j","s","o","n","\n","{","}","\n","~","~","~">>,
      <<"~","~","~","\n","{","}","\n","~","~","~"," ","o","r"," ","~","~","~","\n","[","]","\n","~","~","~">>,
      <<"~","~","~","j","s","o","n","\n","{","}">>,
      <<"~","~","~","\n","{","}","\n","~","~","~","j","s","o","n"," ","a","b","o","v","e">> }

\* ExtractJson on the generated texts, evaluated once
ExtractedJson == [text \in ReplyTexts |-> ExtractJson(text)]

PersonaEntityLists == { <<>>, <<"Customers">>, <<"Customers", "Orders">> }

ApiKeys == {"", "sk-key"}

LlmIdle ==
    /\ llm_pc = "idle"
    /\ persona_entities = <<>>
    /\ api_key = ""
    /\ attempt = 0
    /\ llm_calls = <<>>
    /\ sleeps = <<>>
    /\ reply_text = <<>>
    /\ reply_parses = FALSE
    /\ json_loads = <<>>
    /\ llm_response = NoResponse

(***************************************************************************)
(* Generated authentication configurations.                                *)
(***************************************************************************)
\* None or {}: no configuration
NoAuthConfig ==
    [given |-> FALSE, type |-> <<>>, api_key |-> "", username |-> "", password |-> "",
     token |-> ""]

\* Values of 'type': absent, the four known ones, unknown ones
AuthTypes ==
    { <<>>, <<"none">>, <<"apikey">>, <<"basic">>, <<"bearer">>, <<"oauth2">>, <<"Basic">>, <<"">> }

\* Each credential field absent or empty (""), or given
AuthConfigs ==
    {NoAuthConfig}
    \cup [given : {TRUE}, type : AuthTypes, api_key : {"", "k3y"}, username : {"", "user"},
          password : {"", "pw"}, token : {"", "t0ken"}]

NoHeaders == [h \in {} |-> ""]

AuthIdle ==
    /\ auth_pc = "idle"
    /\ auth_config = NoAuthConfig
    /\ auth_headers = NoHeaders

(***************************************************************************)
(* Generated fetch_metadata requests and service answers.                  *)
(***************************************************************************)
MetadataUrls ==
    { <<>>, << <<>> >>, << <<" ">> >>, << <<"\t", " ", "\n">> >>,
      << <<" ","h","t","t","p","s",":","/","/","s","v","c","/","$","m","e","t","a","d","a","t","a"," ">> >> }

MetaServiceUrls ==
    { <<>>, << <<>> >>, << <<" ", "\n">> >>, << <<"h","t","t","p","s",":","/","/","s","v","c","/","/">> >> }

MetaAuthConfigs ==
    { NoAuthConfig,
      [NoAuthConfig EXCEPT !.given = TRUE, !.type = <<"apikey">>, !.api_key = "k3y"],
      [NoAuthConfig EXCEPT !.given = TRUE, !.type = <<"bearer">>] }

MetaDocs ==
    { Text(0, FALSE, <<>>), Text(0, TRUE, <<>>),
      Text(0, TRUE, << EntityTypeElem("edm", "A", SmallBody("edm", 1)),
                       EntitySetElem("edm", "SA", <<"NS", "A">>) >>) }

MetaOutcomes ==
    { [kind |-> "network", status |-> 0, xml_type |-> FALSE, xml_decl |-> FALSE,
       text |-> Text(0, FALSE, <<>>)] }
    \cup { [kind |-> "http", status |-> st, xml_type |-> FALSE, xml_decl |-> FALSE,
            text |-> Text(0, FALSE, <<>>)] : st \in {401, 404} }
    \cup [kind : {"http"}, status : {200}, xml_type : BOOLEAN, xml_decl : BOOLEAN,
          text : MetaDocs]

MetaIdle ==
    /\ meta_pc = "idle"
    /\ metadata_url = <<>>
    /\ meta_service_url = <<>>
    /\ meta_gets = <<>>
    /\ meta_response = NoResponse

(***************************************************************************)
(* Generated validate_endpoint requests and service answers.               *)
(***************************************************************************)
ValServiceUrls == ServiceUrls \cup { <<"h","t","t","p","s",":","/","/","s","v","c">> }

\* Endpoints: absent or blank, without a query, with a query, with a $format
\* parameter of their own
ValEndpoints ==
    { <<>>,
      <<" ">>,
      <<"/","E">>,
      <<" ","/","E","?","$","t","o","p","=","5"," ">>,
      <<"/","E","?","$","f","o","r","m","a","t","=","j","s","o","n">>,
      <<"/","E","?","$","t","o","p","=","5","&","$","f","o","r","m","a","t","=","j","s","o","n">>,
      <<"/","E","?","$","f","o","r","m","a","t","=","x","m","l","&","$","t","o","p","=","5">>,
      <<"/","E","?","$","f","i","l","t","e","r","=","N","a","m","e"," ","e","q"," ","'","a","?","b","'">> }

ValOutcomes ==
    { [kind |-> "ok", status |-> 200, body |-> b] :
        b \in { EnvResults(ManyRows(3)), EnvValue(ManyRows(3)), EnvValue(<<>>),
                EnvD(ManyRows(3)), Obj(<< <<KeyD, ManyRows(1)[1]>> >>),
                Obj(<< <<KeyValue, JList(ManyRows(1))>>, <<KeyOdataCount, JInt(7)>> >>),
                Obj(<< <<KeyD, JNull>> >>), Obj(<<>>), JList(<<>>) } }
    \cup { [kind |-> "ok", status |-> st, body |-> JNull] : st \in {400, 404} }
    \cup { [kind |-> k, status |-> 200, body |-> JNull] :
             k \in {"timeout", "connection", "badjson"} }

ValidateIdle ==
    /\ val_pc = "idle"
    /\ val_service_url = <<>>
    /\ val_endpoint = <<>>
    /\ val_gets = <<>>
    /\ val_response = NoResponse

(***************************************************************************)
(* Generated check_entities requests and service answers.                  *)
(***************************************************************************)
CheckEntityLists == { l \in EntityLists : Len(l) <= 2 }

CheckOutcomes ==
    { [kind |-> "ok", status |-> 200, body |-> b] :
        b \in { EnvResults(ManyRows(1)), EnvD(ManyRows(1)),
                Obj(<< <<KeyD, Obj(<< <<KeyResults, JList(<<>>)>> >>)>> >>),
                Obj(<< <<KeyValue, JList(ManyRows(1))>>, <<KeyOdataCount, JInt(7)>> >>),
                Obj(<< <<KeyD, JNull>> >>),
                Obj(<< <<KeyD, Obj(<< <<KeyCount, JStr(<<"n","/","a">>)>> >>)>> >>) } }
    \cup { [kind |-> "ok", status |-> st, body |-> JNull] : st \in {401, 404} }
    \cup { [kind |-> k, status |-> 200, body |-> JNull] : k \in {"timeout", "badjson"} }

CheckIdle ==
    /\ chk_pc = "idle"
    /\ chk_service_url = <<>>
    /\ chk_entities = <<>>
    /\ chk_gets = <<>>
    /\ entity_status = EmptyMap
    /\ chk_response = NoResponse

(***************************************************************************)
(* Generated generate_utterances requests.                                 *)
(***************************************************************************)
GenEntities == {"", "Products"}

\* What json.loads makes of the decoded reply: the exception, or a list
JsonDecodeError == [exc |-> "JSONDecodeError", utterances |-> <<>>]

Decoded == { JsonDecodeError } \cup { [exc |-> "none", utterances |-> l] : l \in UtteranceLists }

GenIdle ==
    /\ gen_pc = "idle"
    /\ gen_entity = ""
    /\ gen_api_key = ""
    /\ gen_llm_calls = <<>>
    /\ gen_response = NoResponse

(***************************************************************************)
(* The state machine of the parser.                                        *)
(***************************************************************************)
Init ==
    /\ pc = "start"
    /\ xml_content \in Texts
    /\ expat_skips_bom \in BOOLEAN
    /\ entity_containers = EmptyMap
    /\ raised = FALSE
    /\ RepairIdle
    /\ SampleIdle
    /\ BatchIdle
    /\ LlmIdle
    /\ AuthIdle
    /\ MetaIdle
    /\ ValidateIdle
    /\ CheckIdle
    /\ GenIdle

\* One call of parse_odata_metadata(xml_content).
ParseMetadata ==
    /\ pc = "start"
    /\ LET r == parse_odata_metadata(xml_content, expat_skips_bom)
       IN  /\ entity_containers' = r.value
           /\ raised' = r.raised
    /\ pc' = "done"
    /\ UNCHANGED <<xml_content, expat_skips_bom>>
    /\ UNCHANGED <<repairVars, sampleVars, batchVars, llmVars, authVars, metaVars,
                   validateVars, checkVars, genVars>>

Next == ParseMetadata

Spec == Init /\ [][Next]_vars

(***************************************************************************)
(* The state machine of the utterance post-processing.                     *)
(***************************************************************************)
InitRepair ==
    /\ ParseIdle
    /\ SampleIdle
    /\ BatchIdle
    /\ LlmIdle
    /\ AuthIdle
    /\ MetaIdle
    /\ ValidateIdle
    /\ CheckIdle
    /\ GenIdle
    /\ info_properties \in PropertyLists
    /\ persona \in Personas
    /\ llm_utterances \in UtteranceLists
    /\ utterances = llm_utterances
    /\ previous = llm_utterances
    /\ floored = <<>>
    /\ passes = 0

\* The post-processing loop and the persona loop, over the whole list.
PostProcess ==
    /\ passes < MaxPasses
    /\ LET non_filterable == NonFilterable(info_properties, 1, <<>>)
       IN  /\ utterances' =
                [k \in DOMAIN utterances |->
                    StampPersona(PostProcessUtterance(utterances[k], non_filterable).utterance,
                                 persona)]
           /\ floored' =
                [k \in DOMAIN utterances |->
                    PostProcessUtterance(utterances[k], non_filterable).floored]
    /\ previous' = utterances
    /\ passes' = passes + 1
    /\ UNCHANGED <<info_properties, persona, llm_utterances>>
    /\ UNCHANGED <<parseVars, sampleVars, batchVars, llmVars, authVars, metaVars,
                   validateVars, checkVars, genVars>>

NextRepair == PostProcess

SpecRepair == InitRepair /\ [][NextRepair]_vars

(***************************************************************************)
(* The state machine of one sample fetch.                                  *)
(***************************************************************************)
InitSample ==
    /\ ParseIdle
    /\ RepairIdle
    /\ BatchIdle
    /\ LlmIdle
    /\ AuthIdle
    /\ MetaIdle
    /\ ValidateIdle
    /\ CheckIdle
    /\ GenIdle
    /\ pc = "idle"
    /\ response \in Responses
    /\ hash_seed \in {0, 1}
    /\ records = JList(<<>>)
    /\ entity_samples = EmptyMap

\* One call of fetch_entity_sample for the entity EntityName.
FetchEntitySample ==
    /\ EntityName \notin DOMAIN entity_samples
    /\ LET r == FetchEntry(response, hash_seed)
       IN  /\ records' = r.records
           /\ entity_samples' = Put(entity_samples, EntityName, r.entry)
    /\ UNCHANGED <<response, hash_seed>>
    /\ UNCHANGED <<parseVars, repairVars, batchVars, llmVars, authVars, metaVars,
                   validateVars, checkVars, genVars>>

NextSample == FetchEntitySample

SpecSample == InitSample /\ [][NextSample]_vars

(***************************************************************************)
(* The state machine of one sample-data batch.                             *)
(***************************************************************************)
InitBatch ==
    /\ ParseIdle
    /\ RepairIdle
    /\ SampleIdle
    /\ LlmIdle
    /\ AuthIdle
    /\ MetaIdle
    /\ ValidateIdle
    /\ CheckIdle
    /\ GenIdle
    /\ batch_pc = "start"
    /\ \E req \in SampleRequests :
          /\ service_url = req.service_url
          /\ sample_size = req.sample_size
    /\ batch_entities \in EntityLists
    /\ queue = <<>>
    /\ gets = <<>>
    /\ batch_response = NoResponse

\* fetch_sample_data up to the first fetch: validation and steps 1 and 2
BeginBatch ==
    /\ batch_pc = "start"
    /\ IF Strip(service_url) = <<>> \/ batch_entities = <<>>
       THEN /\ batch_response' = [status |-> 400,
                                  error |-> "Service URL and batch_entities required"]
            /\ batch_pc' = "done"
            /\ queue' = <<>>
       ELSE /\ queue' = FetchOrder(batch_entities)
            /\ batch_pc' = "fetching"
            /\ UNCHANGED batch_response
    /\ UNCHANGED <<service_url, sample_size, batch_entities, gets>>
    /\ UNCHANGED <<parseVars, repairVars, sampleVars, llmVars, authVars, metaVars,
                   validateVars, checkVars, genVars>>

\* Mutant: the first failing entity ends the batch.
Remaining_stopOnError(q, samples, entry) ==
    IF "error" \in DOMAIN entry THEN <<>> ELSE Tail(q)

\* Mutant: an entity is fetched once more after its first failure.
Remaining_retryOnce(q, samples, entry) ==
    IF "error" \in DOMAIN entry /\ Head(q) \notin DOMAIN samples THEN q ELSE Tail(q)

\* The for loops of steps 3 and 4 move on to the next entity whatever
\* fetch_entity_sample stored
Remaining(q, samples, entry) == Tail(q)

\* One call of fetch_entity_sample in steps 3 and 4, with whatever the
\* service answers
FetchNext ==
    /\ batch_pc = "fetching"
    /\ queue # <<>>
    /\ \E resp \in BatchResponses :
          LET r == FetchEntry(resp, hash_seed)
          IN  /\ response' = resp
              /\ records' = r.records
              /\ entity_samples' = Put(entity_samples, Head(queue), r.entry)
              /\ queue' = Remaining(queue, entity_samples, r.entry)
    /\ gets' = Append(gets, RequestFor(Strip(service_url), SampleSize(sample_size),
                                       batch_entities, Head(queue)))
    /\ UNCHANGED <<batch_pc, service_url, sample_size, batch_entities, batch_response,
                   hash_seed>>
    /\ UNCHANGED <<parseVars, repairVars, llmVars, authVars, metaVars, validateVars,
                   checkVars, genVars>>

\* Step 5 and the response
FinishBatch ==
    /\ batch_pc = "fetching"
    /\ queue = <<>>
    /\ batch_response' = [status |-> 200, success |-> TRUE, samples |-> entity_samples,
                          summary |-> Summary(batch_entities, entity_samples)]
    /\ batch_pc' = "done"
    /\ UNCHANGED <<service_url, sample_size, batch_entities, queue, gets>>
    /\ UNCHANGED <<parseVars, repairVars, sampleVars, llmVars, authVars, metaVars,
                   validateVars, checkVars, genVars>>

NextBatch == BeginBatch \/ FetchNext \/ FinishBatch

SpecBatch == InitBatch /\ [][NextBatch]_vars

(***************************************************************************)
(* The state machine of one suggest_personas request.                      *)
(***************************************************************************)
InitPersonas ==
    /\ ParseIdle
    /\ RepairIdle
    /\ SampleIdle
    /\ BatchIdle
    /\ AuthIdle
    /\ MetaIdle
    /\ ValidateIdle
    /\ CheckIdle
    /\ GenIdle
    /\ llm_pc = "start"
    /\ persona_entities \in PersonaEntityLists
    /\ api_key \in ApiKeys
    /\ attempt = 0
    /\ llm_calls = <<>>
    /\ sleeps = <<>>
    /\ reply_text = <<>>
    /\ reply_parses = FALSE
    /\ json_loads = <<>>
    /\ llm_response = NoResponse

\* suggest_personas up to the retry loop
BeginPersonas ==
    /\ llm_pc = "start"
    /\ IF persona_entities = <<>> \/ api_key = ""
       THEN /\ llm_response' = [status |-> 400, error |-> "Entities and API key required"]
            /\ llm_pc' = "done"
       ELSE /\ llm_pc' = "calling"
            /\ UNCHANGED llm_response
    /\ UNCHANGED <<persona_entities, api_key, attempt, llm_calls, sleeps, reply_text,
                   reply_parses, json_loads>>
    /\ UNCHANGED <<parseVars, repairVars, sampleVars, batchVars, authVars, metaVars,
                   validateVars, checkVars, genVars>>

\* One iteration of `for attempt in range(max_retries)`: the call, and what
\* follows its outcome
CallLLM ==
    /\ llm_pc = "calling"
    /\ attempt < max_retries
    /\ \E outcome \in LlmOutcomes :
          /\ llm_calls' = Append(llm_calls, outcome)
          /\ IF outcome = Success
             THEN /\ llm_pc' = "reply"
                  /\ reply_text' \in ReplyTexts
                  /\ reply_parses' \in BOOLEAN
                  /\ UNCHANGED <<attempt, sleeps, llm_response>>
             ELSE CASE AfterError(outcome, attempt) = "retry" ->
                         /\ sleeps' = Append(sleeps, WaitTime(attempt))
                         /\ attempt' = attempt + 1
                         /\ UNCHANGED <<llm_pc, llm_response, reply_text, reply_parses>>
                    [] AfterError(outcome, attempt) = "give up" ->
                         /\ llm_response' = [status |-> 500, error |-> "API overloaded"]
                         /\ llm_pc' = "done"
                         /\ UNCHANGED <<attempt, sleeps, reply_text, reply_parses>>
                    [] AfterError(outcome, attempt) = "raise" ->
                         /\ llm_response' = [status |-> 500, error |-> "str(e)"]
                         /\ llm_pc' = "done"
                         /\ UNCHANGED <<attempt, sleeps, reply_text, reply_parses>>
    /\ UNCHANGED <<persona_entities, api_key, json_loads>>
    /\ UNCHANGED <<parseVars, repairVars, sampleVars, batchVars, authVars, metaVars,
                   validateVars, checkVars, genVars>>

\* After the loop: decode the reply and answer
FinishPersonas ==
    /\ llm_pc = "reply"
    /\ json_loads' = Append(json_loads, ExtractedJson[reply_text])
    /\ llm_response' = IF reply_parses THEN [status |-> 200, success |-> TRUE]
                       ELSE [status |-> 500, error |-> "str(e)"]
    /\ llm_pc' = "done"
    /\ UNCHANGED <<persona_entities, api_key, attempt, llm_calls, sleeps, reply_text,
                   reply_parses>>
    /\ UNCHANGED <<parseVars, repairVars, sampleVars, batchVars, authVars, metaVars,
                   validateVars, checkVars, genVars>>

NextPersonas == BeginPersonas \/ CallLLM \/ FinishPersonas

SpecPersonas == InitPersonas /\ [][NextPersonas]_vars

\* The handler runs in one thread that is never suspended for good: every
\* call of the client and every sleep returns
FairSpecPersonas == SpecPersonas /\ WF_vars(NextPersonas)

(***************************************************************************)
(* The state machine of one build_auth_headers call.                       *)
(***************************************************************************)
InitAuth ==
    /\ ParseIdle
    /\ RepairIdle
    /\ SampleIdle
    /\ BatchIdle
    /\ LlmIdle
    /\ MetaIdle
    /\ ValidateIdle
    /\ CheckIdle
    /\ GenIdle
    /\ auth_pc = "start"
    /\ auth_config \in AuthConfigs
    /\ auth_headers = NoHeaders

BuildAuthHeaders ==
    /\ auth_pc = "start"
    /\ auth_headers' = build_auth_headers(auth_config)
    /\ auth_pc' = "done"
    /\ UNCHANGED auth_config
    /\ UNCHANGED <<parseVars, repairVars, sampleVars, batchVars, llmVars, metaVars,
                   validateVars, checkVars, genVars>>

NextAuth == BuildAuthHeaders

SpecAuth == InitAuth /\ [][NextAuth]_vars

(***************************************************************************)
(* The state machine of one fetch_metadata request.                        *)
(***************************************************************************)
InitMetadata ==
    /\ ParseIdle
    /\ RepairIdle
    /\ SampleIdle
    /\ BatchIdle
    /\ LlmIdle
    /\ ValidateIdle
    /\ CheckIdle
    /\ GenIdle
    /\ auth_pc = "idle"
    /\ auth_config \in MetaAuthConfigs
    /\ auth_headers = NoHeaders
    /\ meta_pc = "start"
    /\ metadata_url \in MetadataUrls
    /\ meta_service_url \in MetaServiceUrls
    /\ meta_gets = <<>>
    /\ meta_response = NoResponse

\* fetch_metadata up to its GET
BeginMetadata ==
    /\ meta_pc = "start"
    /\ LET url == ResolveUrl(metadata_url, meta_service_url)
       IN  IF url = <<>>
           THEN /\ meta_response' = [status |-> 400,
                                     error |-> "Either metadata_url or service_url is required"]
                /\ meta_pc' = "done"
                /\ UNCHANGED meta_gets
           ELSE /\ meta_gets' = Append(meta_gets, [url |-> url,
                                                   headers |-> MetadataHeaders(auth_config)])
                /\ meta_pc' = "waiting"
                /\ UNCHANGED meta_response
    /\ UNCHANGED <<metadata_url, meta_service_url>>
    /\ UNCHANGED <<parseVars, repairVars, sampleVars, batchVars, llmVars, authVars,
                   validateVars, checkVars, genVars>>

\* fetch_metadata from the outcome of its GET to its answer
AnswerMetadata ==
    /\ meta_pc = "waiting"
    /\ \E outcome \in MetaOutcomes :
          meta_response' = MetadataAnswer(outcome, expat_skips_bom)
    /\ meta_pc' = "done"
    /\ UNCHANGED <<metadata_url, meta_service_url, meta_gets>>
    /\ UNCHANGED <<parseVars, repairVars, sampleVars, batchVars, llmVars, authVars,
                   validateVars, checkVars, genVars>>

NextMetadata == BeginMetadata \/ AnswerMetadata

SpecMetadata == InitMetadata /\ [][NextMetadata]_vars

(***************************************************************************)
(* The state machine of one validate_endpoint request.                     *)
(***************************************************************************)
InitValidate ==
    /\ ParseIdle
    /\ RepairIdle
    /\ SampleIdle
    /\ BatchIdle
    /\ LlmIdle
    /\ MetaIdle
    /\ CheckIdle
    /\ GenIdle
    /\ auth_pc = "idle"
    /\ auth_config \in MetaAuthConfigs
    /\ auth_headers = NoHeaders
    /\ val_pc = "start"
    /\ val_service_url \in ValServiceUrls
    /\ val_endpoint \in ValEndpoints
    /\ val_gets = <<>>
    /\ val_response = NoResponse

\* validate_endpoint up to its GET
BeginValidate ==
    /\ val_pc = "start"
    /\ val_gets' = val_gets \o ValidateRequests(Strip(val_service_url), Strip(val_endpoint),
                                                build_auth_headers(auth_config))
    /\ IF Strip(val_service_url) = <<>> \/ Strip(val_endpoint) = <<>>
       THEN /\ val_response' = [status |-> 400, error |-> "Service URL and endpoint required"]
            /\ val_pc' = "done"
       ELSE /\ val_pc' = "waiting"
            /\ UNCHANGED val_response
    /\ UNCHANGED <<val_service_url, val_endpoint>>
    /\ UNCHANGED <<parseVars, repairVars, sampleVars, batchVars, llmVars, authVars,
                   metaVars, checkVars, genVars>>

\* validate_endpoint from the outcome of its GET to its answer
AnswerValidate ==
    /\ val_pc = "waiting"
    /\ \E outcome \in ValOutcomes :
          val_response' = ValidateAnswer(outcome, val_gets[1].url)
    /\ val_pc' = "done"
    /\ UNCHANGED <<val_service_url, val_endpoint, val_gets>>
    /\ UNCHANGED <<parseVars, repairVars, sampleVars, batchVars, llmVars, authVars,
                   metaVars, checkVars, genVars>>

NextValidate == BeginValidate \/ AnswerValidate

SpecValidate == InitValidate /\ [][NextValidate]_vars

(***************************************************************************)
(* The state machine of one check_entities request.                        *)
(***************************************************************************)
InitCheck ==
    /\ ParseIdle
    /\ RepairIdle
    /\ SampleIdle
    /\ BatchIdle
    /\ LlmIdle
    /\ AuthIdle
    /\ MetaIdle
    /\ ValidateIdle
    /\ GenIdle
    /\ chk_pc = "start"
    /\ chk_service_url \in ServiceUrls
    /\ chk_entities \in CheckEntityLists
    /\ chk_gets = <<>>
    /\ entity_status = EmptyMap
    /\ chk_response = NoResponse

\* check_entities up to its loop
BeginCheck ==
    /\ chk_pc = "start"
    /\ IF Strip(chk_service_url) = <<>> \/ chk_entities = <<>>
       THEN /\ chk_response' = [status |-> 400, error |-> "Service URL and entities required"]
            /\ chk_pc' = "done"
       ELSE /\ chk_pc' = "checking"
            /\ UNCHANGED chk_response
    /\ UNCHANGED <<chk_service_url, chk_entities, chk_gets, entity_status>>
    /\ UNCHANGED <<parseVars, repairVars, sampleVars, batchVars, llmVars, authVars,
                   metaVars, validateVars, genVars>>

\* One iteration of `for entity_name, entity_info in entities.items()`: the
\* GET for the next entity, with whatever the service answers
CheckNext ==
    /\ chk_pc = "checking"
    /\ Len(chk_gets) < Len(chk_entities)
    /\ LET e == chk_entities[Len(chk_gets) + 1]
       IN  /\ chk_gets' = Append(chk_gets, [entity |-> e.name,
                                            url |-> CheckUrl(Strip(chk_service_url), e.name)])
           /\ \E outcome \in CheckOutcomes :
                 entity_status' = Put(entity_status, e.name, StatusEntry(outcome, e.info))
    /\ UNCHANGED <<chk_pc, chk_service_url, chk_entities, chk_response>>
    /\ UNCHANGED <<parseVars, repairVars, sampleVars, batchVars, llmVars, authVars,
                   metaVars, validateVars, genVars>>

\* The summary and the response
FinishCheck ==
    /\ chk_pc = "checking"
    /\ Len(chk_gets) = Len(chk_entities)
    /\ chk_response' = [status |-> 200, success |-> TRUE, entity_status |-> entity_status,
                        summary |-> CheckSummary(chk_entities, entity_status)]
    /\ chk_pc' = "done"
    /\ UNCHANGED <<chk_service_url, chk_entities, chk_gets, entity_status>>
    /\ UNCHANGED <<parseVars, repairVars, sampleVars, batchVars, llmVars, authVars,
                   metaVars, validateVars, genVars>>

NextCheck == BeginCheck \/ CheckNext \/ FinishCheck

SpecCheck == InitCheck /\ [][NextCheck]_vars

(***************************************************************************)
(* The state machine of one generate_utterances request.                   *)
(***************************************************************************)
InitGenerate ==
    /\ ParseIdle
    /\ SampleIdle
    /\ BatchIdle
    /\ LlmIdle
    /\ AuthIdle
    /\ MetaIdle
    /\ ValidateIdle
    /\ CheckIdle
    /\ info_properties \in PropertyLists
    /\ persona \in Personas
    /\ llm_utterances = <<>>
    /\ utterances = <<>>
    /\ previous = <<>>
    /\ floored = <<>>
    /\ passes = 0
    /\ gen_pc = "start"
    /\ gen_entity \in GenEntities
    /\ gen_api_key \in ApiKeys
    /\ gen_llm_calls = <<>>
    /\ gen_response = NoResponse

\* generate_utterances up to the LLM call
BeginGenerate ==
    /\ gen_pc = "start"
    /\ IF gen_entity = "" \/ gen_api_key = ""
       THEN /\ gen_response' = [status |-> 400, error |-> "Entity and API key are required"]
            /\ gen_pc' = "done"
       ELSE /\ gen_pc' = "calling"
            /\ UNCHANGED gen_response
    /\ UNCHANGED <<gen_entity, gen_api_key, gen_llm_calls>>
    /\ UNCHANGED <<parseVars, repairVars, sampleVars, batchVars, llmVars, authVars,
                   metaVars, validateVars, checkVars>>

\* The LLM call, the decoding of its reply, the post-processing loop and the
\* persona loop
CallGenerate ==
    /\ gen_pc = "calling"
    /\ \E outcome \in LlmOutcomes :
          /\ gen_llm_calls' = Append(gen_llm_calls, outcome)
          /\ IF outcome # Success
             THEN /\ gen_response' = [status |-> 500, error |-> "str(e)"]
                  /\ UNCHANGED <<llm_utterances, utterances, previous, floored, passes>>
             ELSE \E decoded \in Decoded :
                    IF decoded.exc # "none"
                    THEN /\ gen_response' = [status |-> 500,
                                             error |-> "Failed to parse response"]
                         /\ UNCHANGED <<llm_utterances, utterances, previous, floored, passes>>
                    ELSE LET non_filterable == NonFilterable(info_properties, 1, <<>>)
                             list == decoded.utterances
                             processed ==
                                 [k \in DOMAIN list |->
                                     StampPersona(
                                         PostProcessUtterance(list[k], non_filterable).utterance,
                                         persona)]
                         IN  /\ llm_utterances' = list
                             /\ previous' = list
                             /\ utterances' = processed
                             /\ floored' =
                                   [k \in DOMAIN list |->
                                       PostProcessUtterance(list[k], non_filterable).floored]
                             /\ passes' = 1
                             /\ gen_response' = [status |-> 200, success |-> TRUE,
                                                 utterances |-> processed]
    /\ gen_pc' = "done"
    /\ UNCHANGED <<gen_entity, gen_api_key, info_properties, persona>>
    /\ UNCHANGED <<parseVars, sampleVars, batchVars, llmVars, authVars, metaVars,
                   validateVars, checkVars>>

NextGenerate == BeginGenerate \/ CallGenerate

SpecGenerate == InitGenerate /\ [][NextGenerate]_vars

(***************************************************************************)
(* One request to any of the routes that require input.                    *)
(***************************************************************************)
InitRoutes ==
    \/ InitPersonas
    \/ InitCheck
    \/ InitBatch
    \/ InitGenerate
    \/ InitValidate
    \/ InitMetadata

NextRoutes ==
    \/ NextPersonas
    \/ NextCheck
    \/ NextBatch
    \/ NextGenerate
    \/ NextValidate
    \/ NextMetadata

SpecRoutes == InitRoutes /\ [][NextRoutes]_vars

(***************************************************************************)
(* What a metadata document declares, read off the document itself.        *)
(***************************************************************************)
doc == xml_content.elems

IsEdm(ns) == ns \in {"edm", "edm2", "edm3"}
NsRank(ns) == CHOOSE n \in 1..Len(NsOrder) : NsOrder[n] = ns

\* The call has returned and its argument is a well-formed text without U+FEFF.
ParsedDocument ==
    pc = "done" /\ xml_content.kind = "str" /\ xml_content.wellformed
    /\ xml_content.boms = 0

\* Named EntityType elements of an EDM namespace.
TypeDefs ==
    { j \in DOMAIN doc : doc[j].tag = "EntityType" /\ IsEdm(doc[j].ns) /\ doc[j].Name # "" }

\* EntitySet elements of an EDM namespace with a Name and an EntityType attribute.
SetDecls ==
    { i \in DOMAIN doc : /\ doc[i].tag = "EntitySet" /\ IsEdm(doc[i].ns)
                         /\ doc[i].Name # ""
                         /\ doc[i].EntityType \notin {<<>>, <<"">>} }

ReferencedType(i) == doc[i].EntityType[Len(doc[i].EntityType)]
Resolves(i) == \E j \in TypeDefs : doc[j].Name = ReferencedType(i)

Named(t, tag) ==
    SelectSeq(t.children, LAMBDA c : c.tag = tag /\ c.ns = t.ns /\ c.Name # "")

EqualsTrueIgnoringCase(v) ==
    /\ Len(v) = 4
    /\ v[1] \in {"t", "T"} /\ v[2] \in {"r", "R"}
    /\ v[3] \in {"u", "U"} /\ v[4] \in {"e", "E"}

DeclaredFlag(ann) == (~ann.present) \/ EqualsTrueIgnoringCase(ann.value)

DeclaredProperties(t) ==
    LET named == Named(t, "Property")
    IN  [k \in 1..Min(Len(named), 20) |->
            [name       |-> named[k].Name,
             type       |-> named[k].Type[Len(named[k].Type)],
             filterable |-> DeclaredFlag(named[k].filterable),
             sortable   |-> DeclaredFlag(named[k].sortable)]]

DeclaredNavProps(t) ==
    LET named == Named(t, "NavigationProperty")
    IN  [k \in 1..Min(Len(named), 15) |->
            [name         |-> named[k].Name,
             relationship |-> named[k].Relationship,
             to_role      |-> named[k].ToRole]]

DeclaredKeys(t) ==
    LET keyElems == SelectSeq(t.children, LAMBDA c : c.tag = "Key" /\ c.ns = t.ns)
    IN  IF keyElems = <<>> THEN <<>>
        ELSE LET refs == Named([children |-> keyElems[1].children, ns |-> t.ns],
                               "PropertyRef")
             IN  [k \in 1..Len(refs) |-> refs[k].Name]

Carries(entry, t) ==
    /\ entry.properties = DeclaredProperties(t)
    /\ entry.keys = DeclaredKeys(t)
    /\ entry.navigation_properties = DeclaredNavProps(t)

\* C1: the result holds exactly the entity sets (with a Name and an EntityType)
\* whose EntityType, cut to its last dot-segment, names an EntityType defined in
\* the document; each set carries that segment as entity_type and the keys,
\* properties and navigation properties of a definition of that type, in
\* document order and capped.  Sets whose type does not resolve are absent.
C1_ResolvedEntitySets ==
    ParsedDocument =>
        /\ DOMAIN entity_containers = { doc[i].Name : i \in { i \in SetDecls : Resolves(i) } }
        /\ \A s \in DOMAIN entity_containers :
              \E i \in SetDecls :
                 /\ doc[i].Name = s
                 /\ entity_containers[s].entity_type = ReferencedType(i)
                 /\ \E j \in TypeDefs :
                       /\ doc[j].Name = ReferencedType(i)
                       /\ Carries(entity_containers[s], doc[j])

\* A parsed document with a resolved set and a dropped, unresolved one.
C1_Witness ==
    /\ ParsedDocument
    /\ entity_containers # EmptyMap
    /\ \E i \in SetDecls : ~Resolves(i) /\ doc[i].Name \notin DOMAIN entity_containers
    /\ \E s \in DOMAIN entity_containers : entity_containers[s].properties # <<>>

NothingMatches ==
    \/ ~\E j \in DOMAIN doc : doc[j].tag = "EntityType" /\ IsEdm(doc[j].ns)
    \/ ~\E i \in DOMAIN doc : doc[i].tag = "EntitySet" /\ IsEdm(doc[i].ns)

Malformed == xml_content.kind # "str" \/ ~xml_content.wellformed

\* C2: parse_odata_metadata never raises to its caller; for malformed XML, and
\* for a document without EntityType or EntitySet elements, it returns the
\* empty mapping.
C2_NeverRaises ==
    pc = "done" =>
        /\ ~raised
        /\ \A s \in DOMAIN entity_containers :
              DOMAIN entity_containers[s] =
                 {"entity_type", "properties", "keys", "navigation_properties"}
        /\ (Malformed \/ NothingMatches) => entity_containers = EmptyMap

\* The call has returned for a malformed text.
C2_Witness ==
    pc = "done" /\ xml_content.kind = "str" /\ ~xml_content.wellformed
    /\ entity_containers = EmptyMap /\ ~raised

\* The definitions of type name t, and those among them that come first / last
\* in the order of the first pass (namespace priority, then document order).
DefsOf(t) == { j \in TypeDefs : doc[j].Name = t }
Before(j, k) ==
    \/ NsRank(doc[j].ns) < NsRank(doc[k].ns)
    \/ NsRank(doc[j].ns) = NsRank(doc[k].ns) /\ j <= k
InFirstNamespace(j) == \A k \in DefsOf(doc[j].Name) : NsRank(doc[j].ns) <= NsRank(doc[k].ns)
LastDefinition(t) == CHOOSE j \in DefsOf(t) : \A k \in DefsOf(t) : Before(k, j)

\* C3 as stated: an entity set whose type name is defined under several EDM
\* namespaces carries a definition from the first namespace in priority order.
C3_FirstNamespaceWins ==
    ParsedDocument =>
        \A s \in DOMAIN entity_containers :
           \E j \in DefsOf(entity_containers[s].entity_type) :
              InFirstNamespace(j) /\ Carries(entity_containers[s], doc[j])

\* C3 amended: an entity set carries the definition of its type name that the
\* first pass visits last (last namespace in priority order, last in document
\* order within it): every later definition overwrites the earlier one.
C3_LastDefinitionWins ==
    ParsedDocument =>
        \A s \in DOMAIN entity_containers :
           Carries(entity_containers[s],
                   doc[LastDefinition(entity_containers[s].entity_type)])

\* A resolved type name defined under two EDM namespaces with different content.
C3_Witness ==
    /\ ParsedDocument
    /\ \E s \in DOMAIN entity_containers :
          \E j, k \in DefsOf(entity_containers[s].entity_type) :
             /\ NsRank(doc[j].ns) < NsRank(doc[k].ns)
             /\ DeclaredProperties(doc[j]) # DeclaredProperties(doc[k])
             /\ Carries(entity_containers[s], doc[k])

NamesOf(seq) == [k \in 1..Len(seq) |-> seq[k].name]
FirstNames(t, tag, cap) ==
    LET named == Named(t, tag)
    IN  [k \in 1..(IF Len(named) < cap THEN Len(named) ELSE cap) |-> named[k].Name]

\* C4: every parsed EntityType holds at most 20 properties and at most 15
\* navigation properties, namely the first 20 (15) named Property
\* (NavigationProperty) elements in document order; 25 declared properties
\* yield exactly the first 20.
C4_Caps ==
    ParsedDocument =>
        \A s \in DOMAIN entity_containers :
           LET e == entity_containers[s]
           IN  /\ Len(e.properties) <= 20
               /\ Len(e.navigation_properties) <= 15
               /\ \E j \in DefsOf(e.entity_type) :
                     /\ NamesOf(e.properties) = FirstNames(doc[j], "Property", 20)
                     /\ NamesOf(e.navigation_properties)
                           = FirstNames(doc[j], "NavigationProperty", 15)
                     /\ (Len(Named(doc[j], "Property")) = 25 => Len(e.properties) = 20)

\* An EntityType declaring 25 named properties and 16 navigation properties
\* was parsed into 20 and 15.
C4_Witness ==
    /\ ParsedDocument
    /\ \E s \in DOMAIN entity_containers :
          \E j \in DefsOf(entity_containers[s].entity_type) :
             /\ Len(Named(doc[j], "Property")) = 25
             /\ Len(Named(doc[j], "NavigationProperty")) > 15
             /\ Len(entity_containers[s].properties) = 20
             /\ Len(entity_containers[s].navigation_properties) = 15

\* C5: a parsed Property is filterable iff its sap:filterable annotation is
\* absent or equals "true" ignoring case; likewise sortable and sap:sortable.
C5_AnnotationFlags ==
    ParsedDocument =>
        \A s \in DOMAIN entity_containers :
           \E j \in DefsOf(entity_containers[s].entity_type) :
              LET named == Named(doc[j], "Property")
                  props == entity_containers[s].properties
              IN  /\ Len(props) <= Len(named)
                  /\ \A k \in 1..Len(props) :
                        /\ props[k].name = named[k].Name
                        /\ props[k].filterable
                              <=> (~named[k].filterable.present
                                   \/ EqualsTrueIgnoringCase(named[k].filterable.value))
                        /\ props[k].sortable
                              <=> (~named[k].sortable.present
                                   \/ EqualsTrueIgnoringCase(named[k].sortable.value))

\* One parsed type has a property without the annotation (filterable), one
\* annotated "TRUE" (filterable) and one annotated "false" (not filterable).
C5_Witness ==
    /\ ParsedDocument
    /\ \E s \in DOMAIN entity_containers :
          LET j == LastDefinition(entity_containers[s].entity_type)
              named == Named(doc[j], "Property")
              props == entity_containers[s].properties
          IN  /\ \E k \in 1..Len(props) : ~named[k].filterable.present /\ props[k].filterable
              /\ \E k \in 1..Len(props) :
                    named[k].filterable = Attr(<<"T","R","U","E">>) /\ props[k].filterable
              /\ \E k \in 1..Len(props) :
                    named[k].filterable = Attr(<<"f","a","l","s","e">>) /\ ~props[k].filterable
              /\ \E k \in 1..Len(props) :
                    named[k].sortable = Attr(<<>>) /\ ~props[k].sortable

\* The text d with one U+FEFF put in front of it.
WithBOM(text) == [text EXCEPT !.boms = text.boms + 1]

\* C6: for a text d that does not itself start with U+FEFF, the text made of a
\* single leading U+FEFF followed by d parses to the same mapping as d.
C6_BomTolerance ==
    (pc = "done" /\ xml_content.kind = "str" /\ xml_content.boms = 0) =>
        LET r == parse_odata_metadata(WithBOM(xml_content), expat_skips_bom)
        IN  r.value = entity_containers /\ r.raised = raised

\* A document with a non-empty result, under an XML library that rejects U+FEFF.
C6_Witness ==
    /\ pc = "done" /\ xml_content.kind = "str" /\ xml_content.boms = 0
    /\ ~expat_skips_bom
    /\ entity_containers # EmptyMap

(***************************************************************************)
(* What an endpoint says, read off its text.                               *)
(***************************************************************************)
EndpointOf(utterance) ==
    IF utterance.suggested_endpoint = <<>> THEN <<>> ELSE utterance.suggested_endpoint[1]

\* The text "$top" occurs in e, in any letter case.
MentionsTop(e) ==
    \E i \in 1..(Len(e) - 3) :
        /\ e[i] = "$" /\ e[i + 1] \in {"t", "T"}
        /\ e[i + 2] \in {"o", "O"} /\ e[i + 3] \in {"p", "P"}

\* The text "$filter" occurs in e, in any letter case.
MentionsFilter(e) ==
    \E i \in 1..(Len(e) - 6) :
        /\ e[i] = "$" /\ e[i + 1] \in {"f", "F"} /\ e[i + 2] \in {"i", "I"}
        /\ e[i + 3] \in {"l", "L"} /\ e[i + 4] \in {"t", "T"}
        /\ e[i + 5] \in {"e", "E"} /\ e[i + 6] \in {"r", "R"}

\* The $filter clauses of e as pairs <<first, last>> of positions of their
\* values: the text between "$filter=" and the next '&' or the end.
FilterClauses(e) ==
    { <<i + 8, j>> : i \in { i \in 1..(Len(e) - 7) :
                               MentionsFilter(SubSeq(e, i, i + 6)) /\ e[i + 7] = "=" },
                     j \in { j \in 1..Len(e) : j = Len(e) \/ e[j + 1] = "&" } }

IsClause(e, c) ==
    /\ c \in FilterClauses(e)
    /\ c[1] <= c[2]
    /\ \A k \in c[1]..c[2] : e[k] # "&"

SameIgnoringCase(a, b) ==
    /\ Len(a) = Len(b)
    /\ \A k \in 1..Len(a) : LowerChar(a[k]) = LowerChar(b[k])

\* Property name p stands in e[lo..hi] as a whole word, ignoring case.
MentionedIn(e, lo, hi, p) ==
    \E i \in lo..(hi - Len(p) + 1) :
        /\ SameIgnoringCase(SubSeq(e, i, i + Len(p) - 1), p)
        /\ (i = lo \/ ~WordChar(e[i - 1]))
        /\ (i + Len(p) - 1 = hi \/ ~WordChar(e[i + Len(p)]))

Mentioned(e, p) == \E c \in FilterClauses(e) : IsClause(e, c) /\ MentionedIn(e, c[1], c[2], p)

\* Names of the properties marked filterable = false, in metadata order.
MarkedNonFilterable ==
    LET marked == SelectSeq(info_properties, LAMBDA q : q.kind = "dict" /\ ~q.filterable)
    IN  [k \in 1..Len(marked) |-> marked[k].name]

\* C7: a second application of the post-processing to its own output, with
\* the same property metadata, changes nothing: neither an endpoint nor an
\* annotation.
C7_Idempotent == passes >= 2 => utterances = previous

\* C8: after post-processing, an utterance whose endpoint had a $filter clause
\* mentioning (whole word, ignoring case) a property marked filterable = false
\* has an endpoint without any $filter clause, and removed_non_filterable is
\* the list of exactly the mentioned non-filterable properties.
C8_FilterStripped ==
    passes = 1 =>
        \A k \in DOMAIN utterances :
           LET e == EndpointOf(llm_utterances[k])
               mentioned == SelectSeq(MarkedNonFilterable, LAMBDA p : Mentioned(e, p))
           IN  mentioned # <<>> =>
                  /\ ~MentionsFilter(EndpointOf(utterances[k]))
                  /\ utterances[k].removed_non_filterable = << mentioned >>

\* e has a query parameter named $top (in any letter case): the name stands
\* right after '?' or '&' and is followed by '='.
HasTopParameter(e) ==
    \E i \in 2..(Len(e) - 4) :
        /\ e[i - 1] \in {"?", "&"}
        /\ MentionsTop(SubSeq(e, i, i + 3))
        /\ e[i + 4] = "="

\* C9: a non-empty endpoint without a $top parameter gets "$top=50" appended,
\* after '&' when the endpoint contains '?', after '?' otherwise; an endpoint
\* with a $top parameter gets nothing appended.
C9_PaginationFloor ==
    passes >= 1 =>
        \A k \in DOMAIN utterances :
           LET e == EndpointOf(previous[k])
           IN  e # <<>> =>
                  IF HasTopParameter(e)
                  THEN floored[k] = e
                  ELSE floored[k] =
                          e \o (IF \E i \in 1..Len(e) : e[i] = "?" THEN <<"&">> ELSE <<"?">>)
                            \o <<"$","t","o","p","=","5","0">>

(***************************************************************************)
(* The envelope shapes of a response body, read off the body.              *)
(***************************************************************************)
Fetched == EntityName \in DOMAIN entity_samples /\ response.kind = "ok" /\ response.status = 200

Member(j, key) == j.type = "dict" /\ key \in DOMAIN j.items

ArrayOfObjects(j) ==
    j.type = "list" /\ \A i \in 1..Len(j.elems) : j.elems[i].type = "dict"

\* The body is an object whose "d" member, if any, is an object or an array
\* of objects, and whose "results" and "value" members, if any, are arrays
\* of objects.
EnvelopeBody(b) ==
    /\ b.type = "dict"
    /\ Member(b, KeyD) => b.items[KeyD].type = "dict" \/ ArrayOfObjects(b.items[KeyD])
    /\ (Member(b, KeyD) /\ Member(b.items[KeyD], KeyResults)) =>
          ArrayOfObjects(b.items[KeyD].items[KeyResults])
    /\ Member(b, KeyValue) => ArrayOfObjects(b.items[KeyValue])

\* Shape n of the four shapes matches body b.
ShapeMatches(n, b) ==
    CASE n = 1 -> Member(b, KeyD) /\ Member(b.items[KeyD], KeyResults)
      [] n = 2 -> Member(b, KeyValue)
      [] n = 3 -> Member(b, KeyD) /\ b.items[KeyD].type = "list"
      [] n = 4 -> Member(b, KeyD) /\ b.items[KeyD].type = "dict"

ShapeRecords(n, b) ==
    CASE n = 1 -> b.items[KeyD].items[KeyResults]
      [] n = 2 -> b.items[KeyValue]
      [] n = 3 -> b.items[KeyD]
      [] n = 4 -> JList(<< b.items[KeyD] >>)

\* The body is {"d": {"results": R, ...}} without a "value" member.
ResultsEnvelope(b) ==
    /\ Member(b, KeyD) /\ Member(b.items[KeyD], KeyResults) /\ ~Member(b, KeyValue)
    /\ b.items[KeyD].items[KeyResults].type = "list"

\* C10: the records are those of the first of the shapes d.results, value, d
\* array, singleton d (as a one-element list) that the body matches; hence the
\* bodies {"d":{"results":R}}, {"value":R} and {"d":R} give the same records,
\* record_count and sample_values for one row list R.
C10_EnvelopeTolerance ==
    (Fetched /\ EnvelopeBody(response.body)) =>
        LET b == response.body
            matching == { n \in 1..4 : ShapeMatches(n, b) }
        IN  /\ matching # {} =>
                 records = ShapeRecords(CHOOSE n \in matching : \A m \in matching : n <= m, b)
            /\ matching = {} => records = JList(<<>>)
            /\ ResultsEnvelope(b) =>
                 LET rows == b.items[KeyD].items[KeyResults]
                     asValue == FetchEntry([response EXCEPT
                                              !.body = JDict([k \in {KeyValue} |-> rows])],
                                           hash_seed)
                     asD == FetchEntry([response EXCEPT
                                          !.body = JDict([k \in {KeyD} |-> rows])],
                                       hash_seed)
                 IN  /\ asValue.records = records /\ asD.records = records
                     /\ asValue.entry = entity_samples[EntityName]
                     /\ asD.entry = entity_samples[EntityName]

\* A {"d":{"results":R}} body with at least two rows was sampled.
C10_Witness ==
    /\ Fetched /\ ResultsEnvelope(response.body)
    /\ "error" \notin DOMAIN entity_samples[EntityName]
    /\ entity_samples[EntityName].record_count >= 2
    /\ DOMAIN entity_samples[EntityName].sample_values # {}

(***************************************************************************)
(* Sample-data batches.                                                    *)
(***************************************************************************)
Requested == { batch_entities[k].name : k \in 1..Len(batch_entities) }
Fetching == { gets[i].entity : i \in 1..Len(gets) }
Queued == { queue[i] : i \in 1..Len(queue) }

\* The request passed the validation: a batch is under way or has ended.
InBatch == batch_pc = "fetching" \/ (batch_pc = "done" /\ batch_response.status # 400)

IsErrorResult(entry) == DOMAIN entry = {"error"}
IsSampleSet(entry) ==
    /\ {"record_count", "sample_values"} \subseteq DOMAIN entry
    /\ "error" \notin DOMAIN entry

\* C11: in a batch every entity fetched so far has one entry, a sample set or
\* an error result; the entities not fetched yet are still queued, whatever
\* the earlier fetches gave; and the batch ends with a success response that
\* holds an entry for every requested entity.
C11_BatchIsolation ==
    InBatch =>
        /\ DOMAIN entity_samples = Fetching
        /\ Requested = Fetching \cup Queued
        /\ \A n \in DOMAIN entity_samples :
              IsErrorResult(entity_samples[n]) # IsSampleSet(entity_samples[n])
        /\ batch_pc = "done" =>
              /\ batch_response.status = 200
              /\ batch_response.success
              /\ DOMAIN batch_response.samples = Requested

\* A batch of three entities ended after the first fetch failed and a later
\* one gave records.
C11_Witness ==
    /\ batch_pc = "done" /\ Len(gets) = 3
    /\ IsErrorResult(entity_samples[gets[1].entity])
    /\ IsSampleSet(entity_samples[gets[3].entity])
    /\ entity_samples[gets[3].entity].record_count > 0

\* Number of navigation properties the request lists for the entity
NavCount(entity_name) == Len(InfoOf(batch_entities, entity_name).navigation_properties)

\* C12: of two GETs of a batch, the earlier one is never for an entity without
\* navigation properties when the later one is for an entity with some, and
\* never for an entity with fewer navigation properties than the later one
\* when both have some.
C12_NavFirst ==
    \A i \in 1..Len(gets) : \A j \in 1..Len(gets) :
        (i < j /\ NavCount(gets[j].entity) >= 1) =>
            NavCount(gets[i].entity) >= NavCount(gets[j].entity)

\* Three entities listed with 0, 1 and 2 navigation properties were fetched
\* in the opposite order.
C12_Witness ==
    /\ batch_pc = "done" /\ Len(gets) = 3
    /\ NavCount(batch_entities[1].name) = 0
    /\ NavCount(batch_entities[2].name) = 1
    /\ NavCount(batch_entities[3].name) = 2
    /\ gets[1].entity = batch_entities[3].name
    /\ gets[3].entity = batch_entities[1].name

\* C17: no entity is requested twice, each GET has stored its entry before
\* the next one is issued, an entity that has an entry is not queued again,
\* and a finished batch has issued one GET per requested entity.
C17_OneGetPerEntity ==
    InBatch =>
        /\ \A i \in 1..Len(gets) : \A j \in 1..Len(gets) :
              gets[i].entity = gets[j].entity => i = j
        /\ Len(gets) = Cardinality(DOMAIN entity_samples)
        /\ \A n \in DOMAIN entity_samples : n \notin Queued
        /\ batch_pc = "done" => Len(gets) = Len(batch_entities) /\ Fetching = Requested

\* A batch ended in which a timeout, a 404 and an invalid JSON body were each
\* answered by no further GET.
C17_Witness ==
    /\ batch_pc = "done" /\ Len(gets) = 3 /\ Len(batch_entities) = 3
    /\ \E n \in Requested : entity_samples[n] = [error |-> "Request timeout"]
    /\ \E n \in Requested : entity_samples[n] = [error |-> "Entity not found"]
    /\ \E n \in Requested : entity_samples[n] = [error |-> "Invalid JSON response"]

(***************************************************************************)
(* The retry loop of suggest_personas.                                     *)
(***************************************************************************)
\* The error is of the transient-overload class: rate limit (429), bad
\* gateway (502), service unavailable (503) or overloaded (529).
TransientOverload(e) == e.class = "APIError" /\ e.status \in {429, 502, 503, 529}

\* C13: the LLM is called at most 3 times per request, every call after the
\* first follows a transient-overload error of the call before it, and an
\* error of another class is the last call of the request.
C13_BoundedRetry ==
    /\ Len(llm_calls) <= 3
    /\ \A i \in 2..Len(llm_calls) : TransientOverload(llm_calls[i - 1])
    /\ \A i \in 1..Len(llm_calls) :
          (llm_calls[i] # Success /\ ~TransientOverload(llm_calls[i])) =>
              (i = Len(llm_calls) /\ llm_pc = "done" /\ llm_response.status = 500)

(***************************************************************************)
(* Authentication headers.                                                 *)
(***************************************************************************)
ConfiguredType == IF auth_config.given /\ auth_config.type # <<>> THEN auth_config.type[1] ELSE ""

\* C14: the result holds the default User-Agent and Accept headers; it has an
\* APIKey header exactly for type apikey with a non-empty key, and an
\* Authorization header exactly for type basic with non-empty user name and
\* password or type bearer with a non-empty token; so an absent, unknown or
\* "none" type gives no credential header.
C14_AuthHeaders ==
    auth_pc = "done" =>
        /\ {"User-Agent", "Accept"} \subseteq DOMAIN auth_headers
        /\ auth_headers["User-Agent"] = "Mozilla/5.0"
        /\ auth_headers["Accept"] = "application/json"
        /\ "APIKey" \in DOMAIN auth_headers <=>
              (ConfiguredType = "apikey" /\ auth_config.api_key # "")
        /\ "Authorization" \in DOMAIN auth_headers <=>
              \/ ConfiguredType = "basic" /\ auth_config.username # ""
                                          /\ auth_config.password # ""
              \/ ConfiguredType = "bearer" /\ auth_config.token # ""
        /\ ConfiguredType \notin {"apikey", "basic", "bearer"} =>
              DOMAIN auth_headers = DOMAIN DefaultHeaders

\* Headers were built for type basic with a user name and no password: no
\* Authorization header, although a token and an API key were given too.
C14_Witness ==
    /\ auth_pc = "done"
    /\ ConfiguredType = "basic"
    /\ auth_config.username # "" /\ auth_config.password = ""
    /\ auth_config.token # "" /\ auth_config.api_key # ""
    /\ DOMAIN auth_headers = DOMAIN DefaultHeaders

(***************************************************************************)
(* fetch_metadata requests without a URL.                                  *)
(***************************************************************************)
\* The optional field is absent, empty, or made of whitespace only.
NotSupplied(field) ==
    field = <<>> \/ \A i \in 1..Len(field[1]) : field[1][i] \in Whitespace

\* C15: a fetch_metadata request that supplies neither metadata_url nor
\* service_url is answered with status 400 and an error field, without any
\* GET.
C15_MissingUrl ==
    (meta_pc \in {"waiting", "done"}
     /\ NotSupplied(metadata_url) /\ NotSupplied(meta_service_url)) =>
        /\ meta_pc = "done"
        /\ meta_response.status = 400
        /\ "error" \in DOMAIN meta_response
        /\ meta_gets = <<>>

\* A request with a whitespace-only metadata_url and no service_url was
\* answered.
C15_Witness ==
    /\ meta_pc = "done"
    /\ metadata_url # <<>> /\ metadata_url[1] # <<>> /\ NotSupplied(metadata_url)
    /\ meta_service_url = <<>>
    /\ meta_response.status = 400

(***************************************************************************)
(* Sample value lists.                                                     *)
(***************************************************************************)
\* The strings that stand for a scalar value: booleans in lower case, text
\* as it is or flagged as boolean-looking, numbers in decimal.
StringForms(value) ==
    CASE value.type = "bool" ->
            { IF value.v THEN <<"t","r","u","e">> ELSE <<"f","a","l","s","e">> }
      [] value.type = "str" -> { value.v, value.v \o BooleanNote }
      [] value.type = "int" -> { StrOf(value) }
      [] OTHER -> {}

\* C16: in a sample set every value list has at most 5 entries, no entry
\* twice, and only string forms of values the records hold for that
\* property; a list exists only for a field that some record holds under a
\* name not starting with "__" and with a value that is neither an object
\* nor an array.
C16_SampleValues ==
    (EntityName \in DOMAIN entity_samples
     /\ "sample_values" \in DOMAIN entity_samples[EntityName]) =>
        LET sample_values == entity_samples[EntityName].sample_values
            rows == records.elems
        IN  \A key \in DOMAIN sample_values :
               LET list == sample_values[key]
                   seen == { i \in 1..Len(rows) :
                               /\ key \in DOMAIN rows[i].items
                               /\ rows[i].items[key].type \notin {"dict", "list"} }
               IN  /\ Len(list) <= 5
                   /\ \A i \in 1..Len(list) : \A j \in 1..Len(list) :
                         list[i] = list[j] => i = j
                   /\ \A i \in 1..Len(list) :
                         \E r \in seen : list[i] \in StringForms(rows[r].items[key])
                   /\ ~(Len(key) >= 2 /\ key[1] = "_" /\ key[2] = "_")
                   /\ seen # {}

\* Records with more than 5 distinct values of one property were sampled,
\* and 5 of them were kept.
C16_Witness ==
    /\ EntityName \in DOMAIN entity_samples
    /\ "sample_values" \in DOMAIN entity_samples[EntityName]
    /\ entity_samples[EntityName].record_count > 5
    /\ KeyId \in DOMAIN entity_samples[EntityName].sample_values
    /\ Len(entity_samples[EntityName].sample_values[KeyId]) = 5

(***************************************************************************)
(* The result of one post-processing pass.                                 *)
(***************************************************************************)
\* C18: after post-processing, every non-empty endpoint contains $top.
C18_TopAfterRepair ==
    passes = 1 =>
        \A k \in DOMAIN utterances :
            EndpointOf(utterances[k]) # <<>> => MentionsTop(EndpointOf(utterances[k]))

\* C19: an utterance that got removed_non_filterable and a warning also has
\* auto_modified = true and the LLM's endpoint as original_endpoint; and an
\* utterance whose endpoint is no longer the LLM's has the LLM's endpoint as
\* original_endpoint.
C19_AuditTrail ==
    passes = 1 =>
        \A k \in DOMAIN utterances :
            LET u == utterances[k]
                llm == EndpointOf(llm_utterances[k])
            IN  /\ (u.removed_non_filterable # <<>> /\ u.warning # <<>>) =>
                      (u.auto_modified = <<TRUE>> /\ u.original_endpoint = <<llm>>)
                /\ EndpointOf(u) # llm => u.original_endpoint = <<llm>>

\* The endpoint has a $top parameter and no $filter clause of it mentions a
\* property marked filterable = false.
Compliant(e) ==
    /\ HasTopParameter(e)
    /\ \A i \in 1..Len(MarkedNonFilterable) : ~Mentioned(e, MarkedNonFilterable[i])

\* C20: post-processing keeps the number and order of the utterances and
\* their utterance, complexity and operations_used fields; a compliant
\* utterance keeps its endpoint and gets none of original_endpoint,
\* auto_modified, warning, removed_non_filterable.
C20_Frame ==
    passes = 1 =>
        /\ Len(utterances) = Len(llm_utterances)
        /\ \A k \in DOMAIN utterances :
              LET u == utterances[k]
                  llm == llm_utterances[k]
              IN  /\ u.utterance = llm.utterance
                  /\ u.complexity = llm.complexity
                  /\ u.operations_used = llm.operations_used
                  /\ Compliant(EndpointOf(llm)) =>
                        /\ u.suggested_endpoint = llm.suggested_endpoint
                        /\ u.original_endpoint = llm.original_endpoint
                        /\ u.auto_modified = llm.auto_modified
                        /\ u.warning = llm.warning
                        /\ u.removed_non_filterable = llm.removed_non_filterable

\* A list of two utterances went through one pass; one is compliant and has a
\* $filter clause while some property is not filterable, the other one was
\* repaired.
C20_Witness ==
    /\ passes = 1 /\ Len(utterances) = 2
    /\ MarkedNonFilterable # <<>>
    /\ \E k \in DOMAIN utterances :
          /\ Compliant(EndpointOf(llm_utterances[k]))
          /\ FilterClauses(EndpointOf(llm_utterances[k])) # {}
    /\ \E k \in DOMAIN utterances : utterances[k].auto_modified = <<TRUE>>

(***************************************************************************)
(* Backoff and termination of the retry loop of suggest_personas.          *)
(***************************************************************************)
\* All three attempts failed with errors of the transient-overload class
AllOverloaded ==
    /\ Len(llm_calls) = 3
    /\ \A i \in 1..3 : TransientOverload(llm_calls[i])

\* The waits so far: the k-th wait, which precedes attempt k+1, lasts
\* 2*2^(k-1) seconds, and a wait follows only a failed attempt that is not
\* the third
BackoffSchedule ==
    /\ Len(sleeps) <= 2
    /\ \A k \in 1..Len(sleeps) : sleeps[k] = 2 * (2 ^ (k - 1))
    /\ Len(sleeps) \in {Len(llm_calls) - 1, Len(llm_calls)}
    /\ Len(sleeps) = Len(llm_calls) => (llm_pc \in {"start", "calling"})

\* C21: when all three attempts failed with overload-class errors the request
\* has ended with a 500 error response, no text was handed to the JSON parser,
\* and the waits were 2s and 4s with none after the third failure; every wait
\* follows the schedule 2*2^(k-1); and the request always ends.
C21_Backoff ==
    /\ [](BackoffSchedule \/ llm_calls = <<>>)
    /\ [](AllOverloaded => /\ llm_pc = "done"
                           /\ llm_response.status = 500
                           /\ "error" \in DOMAIN llm_response
                           /\ json_loads = <<>>
                           /\ sleeps = <<2, 4>>)
    /\ <>(llm_pc = "done")

\* Three overloaded attempts, answered 500 after waits of 2s and 4s.
C21_Witness ==
    /\ AllOverloaded
    /\ llm_pc = "done"
    /\ llm_response.status = 500
    /\ sleeps = <<2, 4>>
    /\ json_loads = <<>>

(***************************************************************************)
(* Decoding of the LLM reply.                                              *)
(***************************************************************************)
\* The text json.loads was handed
Handed == json_loads[Len(json_loads)]

\* What follows the opening fence of the first fenced block, the fence being
\* ``` or ```json
AfterOpener(text) ==
    LET o == Find(text, Fence)
        tagged == o + 6 <= Len(text) /\ SubSeq(text, o, o + 6) = JsonFence
    IN  SubSeq(text, o + (IF tagged THEN 7 ELSE 3), Len(text))

\* The text holds a fenced block: an opening fence and a closing one after it
HasFencedBlock(text) == Contains(text, Fence) /\ Contains(AfterOpener(text), Fence)

\* The content of the first fenced block, trimmed
FirstBlockContent(text) == Strip(SplitFirst(AfterOpener(text), Fence))

\* What stands between the first occurrence of the marker and the next fence
\* after it (or the end of the text), trimmed
Between(text, marker) ==
    LET i == Find(text, marker)
        after == SubSeq(text, i + Len(marker), Len(text))
        j == Find(after, Fence)
    IN  Strip(IF j = 0 THEN after ELSE SubSeq(after, 1, j - 1))

\* C23 as stated: a text with a fenced block is decoded from the trimmed
\* content of its first fenced block, whether opened by ```json or by ```,
\* and a text without a fence is parsed whole.
C23_FirstBlock ==
    json_loads # <<>> =>
        /\ HasFencedBlock(reply_text) => Handed = FirstBlockContent(reply_text)
        /\ ~Contains(reply_text, Fence) => Handed = reply_text

\* C23: a text that holds the marker ```json is decoded from what stands
\* between the first ```json and the next ``` (or the end of the text),
\* trimmed; otherwise a text that holds ``` is decoded from what stands
\* between the first ``` and the next one (or the end), trimmed; a text
\* without ``` is parsed whole.
C23_MarkerContent ==
    json_loads # <<>> =>
        Handed = IF Contains(reply_text, JsonFence) THEN Between(reply_text, JsonFence)
                 ELSE IF Contains(reply_text, Fence) THEN Between(reply_text, Fence)
                 ELSE reply_text

\* A reply with a plain block before a json block was decoded from the json
\* block.
C23_Witness ==
    /\ json_loads # <<>>
    /\ reply_text = <<"~","~","~","\n","G","E","T"," ","/","E","\n","~","~","~","\n","~","~","~","j","s","o","n","\n","{","}","\n","~","~","~">>
    /\ Handed = <<"{", "}">>

(***************************************************************************)
(* The URL of a sample fetch.                                              *)
(***************************************************************************)
\* The URL template for an entity of the batch, over a service root: the
\* fixed query, followed by &$expand=<first navigation property> exactly when
\* the entity has a navigation property
TemplateUrl(root, entity_name) ==
    LET navs == InfoOf(batch_entities, entity_name).navigation_properties
    IN  root \o <<"/", entity_name, "?$top=", ToString(SampleSize(sample_size)),
                  "&$inlinecount=allpages", "&$format=json">>
             \o (IF Len(navs) >= 1 THEN <<"&$expand=", navs[1].name>> ELSE <<>>)

\* The service root with its trailing slashes removed
ServiceRoot ==
    LET u == Strip(service_url)
    IN  SubSeq(u, 1, CHOOSE n \in 0..Len(u) :
                        /\ n = 0 \/ u[n] # "/"
                        /\ \A k \in (n + 1)..Len(u) : u[k] = "/")

\* C22 as stated: every sample fetch goes to
\* {service_url}/{entity}?$top={sample_size}&$inlinecount=allpages&$format=json
\* over the service_url of the request, with &$expand=<name> added if and
\* only if the entity has a navigation property, <name> being the first one.
C22_SampleUrl ==
    \A i \in 1..Len(gets) : gets[i].url = TemplateUrl(Strip(service_url), gets[i].entity)

\* C22: every sample fetch goes to the template URL over the service_url
\* without its trailing slashes, with &$expand=<name> added if and only if
\* the entity has a navigation property, <name> being the first one.
C22_SampleUrlRoot ==
    \A i \in 1..Len(gets) : gets[i].url = TemplateUrl(ServiceRoot, gets[i].entity)

\* A batch over a service_url ending in a slash fetched one entity with an
\* expansion and one without.
C22_Witness ==
    /\ Strip(service_url) = <<"h","t","t","p","s",":","/","/","s","v","c","/">>
    /\ \E i \in 1..Len(gets) :
          gets[i].url = <<"h","t","t","p","s",":","/","/","s","v","c">> \o <<"/", gets[i].entity, "?$top=", "5",
                          "&$inlinecount=allpages", "&$format=json", "&$expand=", "Nav1">>
    /\ \E i \in 1..Len(gets) :
          gets[i].url = <<"h","t","t","p","s",":","/","/","s","v","c">> \o <<"/", gets[i].entity, "?$top=", "5",
                          "&$inlinecount=allpages", "&$format=json">>

(***************************************************************************)
(* The $format parameter of validate_endpoint.                             *)
(***************************************************************************)
\* How many times pat stands in s
Occurrences(s, pat) ==
    Cardinality({ i \in 1..(Len(s) - Len(pat) + 1) : SubSeq(s, i, i + Len(pat) - 1) = pat })

FormatParam == <<"$","f","o","r","m","a","t","=">>

\* C24: the URL validate_endpoint requests holds exactly one $format
\* parameter; when the endpoint has none of its own, $format=json is joined to
\* it with "&" if the endpoint has a "?" and with "?" otherwise.
C24_SingleFormat ==
    \A i \in 1..Len(val_gets) :
        LET endpoint == Strip(val_endpoint)
            joined == IF Contains(endpoint, <<"?">>) THEN <<"&">> ELSE <<"?">>
        IN  /\ Occurrences(val_gets[i].url, FormatParam) = 1
            /\ ~Contains(endpoint, FormatParam) =>
                  val_gets[i].url = RStripSlash(Strip(val_service_url)) \o endpoint
                                        \o joined \o FormatJson

(***************************************************************************)
(* The shape of an endpoint after its $filter was stripped.                *)
(***************************************************************************)
\* e is a path followed by nothing, or by "?" and parameters: the first
\* character that belongs to a query ("&" or the "$" of a parameter name)
\* comes after a "?"
QueryAfterMark(e) ==
    \A i \in 1..Len(e) :
        e[i] \in {"&", "$"} => \E q \in 1..(i - 1) : e[q] = "?"

\* C25: an endpoint whose $filter was stripped by the filterability
\* enforcement has a "?" before its first remaining query parameter and holds
\* neither "?&" nor "&&".
C25_WellFormedAfterStrip ==
    \A k \in DOMAIN utterances :
        utterances[k].removed_non_filterable # <<>> =>
            LET e == EndpointOf(utterances[k])
            IN  /\ QueryAfterMark(e)
                /\ ~Contains(e, <<"?", "&">>)
                /\ ~Contains(e, <<"&", "&">>)

(***************************************************************************)
(* Input validation and outbound calls, over all routes.                   *)
(***************************************************************************)
\* C26: in each of suggest-personas, check-entities, sample-data,
\* generate-utterances, validate-endpoint and fetch-metadata, a request that
\* is answered 400 has caused no GET to the OData service and no call of the
\* LLM provider.
C26_ValidationFirst ==
    /\ llm_response.status = 400 => llm_calls = <<>>
    /\ chk_response.status = 400 => chk_gets = <<>>
    /\ batch_response.status = 400 => gets = <<>>
    /\ gen_response.status = 400 => gen_llm_calls = <<>>
    /\ val_response.status = 400 => val_gets = <<>>
    /\ meta_response.status = 400 => meta_gets = <<>>

\* A validate-endpoint request with a service URL and a blank endpoint was
\* answered 400 without any GET.
C26_Witness ==
    /\ val_pc = "done"
    /\ Strip(val_service_url) # <<>>
    /\ val_endpoint # <<>> /\ Strip(val_endpoint) = <<>>
    /\ val_response.status = 400
    /\ val_gets = <<>>

====
